---- MODULE Spec2Model ----
(***************************************************************************)
(* State-machine model of two parts of StratoVirt:                         *)
(*   - the AIO engine            (src/util/src/aio/mod.rs)                 *)
(*   - the virtio-serial device  (src/virtio/src/device/serial.rs)         *)
(* The two parts share no state; SpecAio runs the engine, SpecSerial the   *)
(* serial device.                                                          *)
(***************************************************************************)
EXTENDS Integers, Sequences, FiniteSets, TLC

VARIABLES
    \* ---- AIO engine (struct Aio) ----
    aio_in_queue,   \* Aio.aio_in_queue: request ids, index 1 = list head
    aio_in_flight,  \* Aio.aio_in_flight: request ids, index 1 = list head
    pc,             \* "idle": between engine calls; "drain": inside process_list
    nextId,         \* identity of the next request handed to rw_aio
    reqNbytes,      \* id -> AioCb.nbytes of the request
    reqRoute,       \* id -> "none" | "aligned" | "bounce"
    results,        \* id -> sequence of results passed to complete_func
    kernel,         \* backend: ids accepted by submit whose event is outstanding
    accepted,       \* history: ids in the order the backend accepted them
    lastDrain,      \* history: the process_list iteration that has just run
    reqClass,       \* history: id -> how the caller's arguments classify the request
    mem,            \* the memory the iovecs point into: address -> byte
    iovCall,        \* history: the last call of iov_from_buf_direct / iov_to_buf_direct
    lastCall        \* history: the engine call that runs or has just returned

VARIABLES
    \* ---- virtio-serial device (struct Serial and its handlers) ----
    ports,          \* Serial.ports: the SerialPort records, in stored order
    active,         \* the handlers are registered (between activate and deactivate)
    handlers,       \* the registered handlers, each with its queues
    device_broken,  \* VirtioBase.broken
    panicked,       \* the process has panicked (an unwrap() on None)
    ctrlRxAvail,    \* queue 2 (control receiveq): available chains, oldest first
    ctrlRxUsed,     \* queue 2: used ring, with the bytes written to each chain
    ctrlTxAvail,    \* queue 3 (control transmitq): available chains, oldest first
    ctrlTxUsed,     \* queue 3: used ring (the recorded lengths)
    spc,            \* "idle" | "ctrl": inside the loop of output_control_internal
    nStim,          \* number of stimuli (guest posts, host events) so far
    lastOp,         \* history: the device operation that has just run
    rxAvail,        \* per port nr: receiveq, available chains, oldest first
    rxUsed,         \* per port nr: receiveq used ring, with the bytes copied
    txAvail,        \* per port nr: transmitq, available chains, oldest first
    txUsed,         \* per port nr: transmitq used ring
    chardevOut,     \* per port nr: the bytes written to the chardev output
    lastIo,         \* history: the port handler run that has just ended
    device_features, \* VirtioBase.device_features: the set of offered bits
    driver_features, \* VirtioBase.driver_features: the set of acknowledged bits
    lastCfg,        \* history: the last feature or configuration access
    lockOwner,      \* mutex -> the thread that holds it, 0 when it is free
    thr             \* thread -> the operation it runs and its position in it

\* The state of struct Aio and its histories.
engineVars == <<aio_in_queue, aio_in_flight, pc, nextId, reqNbytes, reqRoute,
                results, kernel, accepted, lastDrain, reqClass, lastCall>>

\* The memory behind the iovecs.
iovVars == <<mem, iovCall>>

aioVars == <<engineVars, iovVars>>

ctrlVars == <<ports, active, handlers, device_broken, panicked, ctrlRxAvail, ctrlRxUsed,
              ctrlTxAvail, ctrlTxUsed, spc, nStim, lastOp>>

\* The device state that the port handlers read and leave alone.
devVars == <<ports, active, handlers, device_broken, panicked, ctrlRxAvail, ctrlRxUsed,
             ctrlTxAvail, ctrlTxUsed, spc, lastOp>>

dataVars == <<rxAvail, rxUsed, txAvail, txUsed, chardevOut, lastIo>>

cfgVars == <<device_features, driver_features, lastCfg>>

lockVars == <<lockOwner, thr>>

serVars == <<ctrlVars, dataVars, cfgVars, lockVars>>

vars == <<aioVars, serVars>>

\* ------------------------------------------------------------------------
\* Bounds
\* ------------------------------------------------------------------------

\* Aio::new sets max_events = 128; the model runs the engine with a small
\* capacity so that the full-capacity cases are reached.
MaxEvents == 2

\* Number of requests handed to rw_aio in one behaviour.
MaxReqs == 3

\* VirtioSerialInfo.max_ports of the modelled device.
MaxPorts == 2

\* Number of stimuli in one behaviour of the serial device: chains and
\* messages the guest puts on a queue, char-device notifications and input.
MaxStimuli == 3

\* BUF_SIZE, the buffer size for the chardev backend (4096 in serial.rs line
\* 48), scaled down.
BUF_SIZE == 3

\* ------------------------------------------------------------------------
\* Generic helpers
\* ------------------------------------------------------------------------

Min(a, b) == IF a <= b THEN a ELSE b

Range(s) == { s[i] : i \in 1..Len(s) }

RECURSIVE SumLens(_)
SumLens(s) == IF s = <<>> THEN 0 ELSE Head(s) + SumLens(Tail(s))

\* The concatenation of a sequence of sequences.
RECURSIVE Concat(_)
Concat(ss) == IF ss = <<>> THEN <<>> ELSE Head(ss) \o Concat(Tail(ss))

\* ------------------------------------------------------------------------
\* link_list::List as used by the engine (head = index 1, tail = last)
\* ------------------------------------------------------------------------

add_head(l, x) == <<x>> \o l

add_tail(l, x) == Append(l, x)

\* List::pop_tail: the list without its tail (callers test for emptiness).
pop_tail_rest(l) == SubSeq(l, 1, Len(l) - 1)

pop_tail_node(l) == l[Len(l)]

pop_head_rest(l) == Tail(l)

pop_head_node(l) == Head(l)

\* List::unlink: remove the node from wherever it is in the list.
unlink(l, x) == SelectSeq(l, LAMBDA y : y # x)

\* ------------------------------------------------------------------------
\* Iovec helpers
\* ------------------------------------------------------------------------

\* struct Iovec
Iovec(base, len) == [iov_base |-> base, iov_len |-> len]

IovLens(iovec) == [i \in 1..Len(iovec) |-> iovec[i].iov_len]

\* iov_from_buf_direct: the returned count, computed by the loop over the
\* iovecs (start, end are the loop's variables; buflen = buf.len()).
RECURSIVE iov_from_buf_loop(_, _, _, _)
iov_from_buf_loop(iovec, buflen, start, end) ==
    IF iovec = <<>> THEN end
    ELSE LET e == Min(start + Head(iovec).iov_len, buflen)
         IN  IF e >= buflen THEN e
             ELSE iov_from_buf_loop(Tail(iovec), buflen, e, e)

iov_from_buf_direct(iovec, buflen) == iov_from_buf_loop(iovec, buflen, 0, 0)

\* iov_to_buf_direct: the returned count; the same loop with the copy reversed.
RECURSIVE iov_to_buf_loop(_, _, _, _)
iov_to_buf_loop(iovec, buflen, start, end) ==
    IF iovec = <<>> THEN end
    ELSE LET e == Min(start + Head(iovec).iov_len, buflen)
         IN  IF e >= buflen THEN e
             ELSE iov_to_buf_loop(Tail(iovec), buflen, e, e)

iov_to_buf_direct(iovec, buflen) == iov_to_buf_loop(iovec, buflen, 0, 0)

\* Size of the memory the iovecs of the copy helpers point into, and the
\* longest buffer handed to them.
MemSize == 4

MaxBufLen == 3

\* mem_from_buf (lines 345-352): buf is written to memory at hva.
mem_from_buf(buf, hva, m) ==
    [a \in DOMAIN m |->
        IF a >= hva /\ a < hva + Len(buf) THEN buf[a - hva + 1] ELSE m[a]]

\* mem_to_buf (lines 370-376): the slice buf[start..end) is filled from
\* memory at hva.
mem_to_buf(buf, start, end, hva, m) ==
    [k \in 1..Len(buf) |->
        IF k > start /\ k <= end THEN m[hva + (k - start - 1)] ELSE buf[k]]

\* The mutant of iov_from_buf_copy that takes every slice from the start of
\* the buffer.
RECURSIVE iov_from_buf_copy_Restart(_, _, _, _, _)
iov_from_buf_copy_Restart(iovec, buf, start, end, m) ==
    IF iovec = <<>> THEN [ret |-> end, mem |-> m]
    ELSE LET e == Min(start + Head(iovec).iov_len, Len(buf))
             m1 == mem_from_buf(SubSeq(buf, 1, e - start), Head(iovec).iov_base, m)
         IN  IF e >= Len(buf) THEN [ret |-> e, mem |-> m1]
             ELSE iov_from_buf_copy_Restart(Tail(iovec), buf, e, e, m1)

\* iov_from_buf_direct (lines 355-368) with the bytes it copies: the
\* returned count and the memory afterwards.
RECURSIVE iov_from_buf_copy(_, _, _, _, _)
iov_from_buf_copy(iovec, buf, start, end, m) ==
    IF iovec = <<>> THEN [ret |-> end, mem |-> m]
    ELSE LET e == Min(start + Head(iovec).iov_len, Len(buf))
             m1 == mem_from_buf(SubSeq(buf, start + 1, e), Head(iovec).iov_base, m)
         IN  IF e >= Len(buf) THEN [ret |-> e, mem |-> m1]
             ELSE iov_from_buf_copy(Tail(iovec), buf, e, e, m1)

\* iov_to_buf_direct (lines 379-392) with the bytes it copies: the returned
\* count and the buffer afterwards.
RECURSIVE iov_to_buf_copy(_, _, _, _, _)
iov_to_buf_copy(iovec, buf, start, end, m) ==
    IF iovec = <<>> THEN [ret |-> end, buf |-> buf]
    ELSE LET e == Min(start + Head(iovec).iov_len, Len(buf))
             b1 == mem_to_buf(buf, start, e, Head(iovec).iov_base, m)
         IN  IF e >= Len(buf) THEN [ret |-> e, buf |-> b1]
             ELSE iov_to_buf_copy(Tail(iovec), b1, e, e, m)

\* ------------------------------------------------------------------------
\* AIO engine: inputs
\* ------------------------------------------------------------------------

\* enum OpCode
OpCodes == {"Noop", "Preadv", "Pwritev", "Fdsync"}

\* Scatter/gather lists a caller may pass (addresses and lengths in bytes).
IovecChoices ==
    { <<Iovec(0, 2)>>,
      <<Iovec(1, 2)>>,
      <<Iovec(0, 2), Iovec(4, 1)>> }

\* Sector sizes of the backing file.
SectorSizes == {2}

\* Control blocks a caller may pass to rw_aio.  nbytes normally is the sum
\* of the iovec lengths; the engine does not check it, so a larger value is
\* an input too.
AioCbs ==
    UNION { { [opcode |-> op, iovec |-> iv, nbytes |-> nb, last_aio |-> la] :
                op \in {"Preadv", "Pwritev", "Fdsync"},
                nb \in {SumLens(IovLens(iv)), 3},
                la \in BOOLEAN } : iv \in IovecChoices }

\* What the bounce path meets in its environment: whether memalign returned
\* memory and, if it did, whether the raw read/write succeeded.
BounceEnvs ==
    { [alloc_ok |-> FALSE, raw_ok |-> FALSE],
      [alloc_ok |-> TRUE, raw_ok |-> FALSE],
      [alloc_ok |-> TRUE, raw_ok |-> TRUE] }

\* AioEvent for request id with cb.nbytes = nb: full success, a short
\* result, or an error status.
EventsFor(id, nb) ==
    { [user_data |-> id, status |-> 0, res |-> nb],
      [user_data |-> id, status |-> 0, res |-> nb - 1],
      [user_data |-> id, status |-> -5, res |-> nb] }

\* Sequences of events get_events may return: at most one event for each
\* request the backend holds, in any order.
RECURSIVE EventSeqs(_)
EventSeqs(ids) ==
    {<<>>} \cup
    UNION { { <<e>> \o rest : e \in EventsFor(id, reqNbytes[id]),
                              rest \in EventSeqs(ids \ {id}) } : id \in ids }

\* ------------------------------------------------------------------------
\* AIO engine: operations
\* ------------------------------------------------------------------------

\* Variant of Misaligned that tests the base addresses only.
Misaligned_BaseOnly(cb, sector_size) ==
    \E i \in 1..Len(cb.iovec) : cb.iovec[i].iov_base % sector_size # 0

\* rw_aio, lines 192-205: some iovec has a misaligned base or length.
Misaligned(cb, sector_size) ==
    \E i \in 1..Len(cb.iovec) :
        \/ cb.iovec[i].iov_base % sector_size # 0
        \/ cb.iovec[i].iov_len % sector_size # 0

\* The mutant of misaligned_rw that does not free the buffer when the raw
\* read fails.
misaligned_rw_LeakOnReadError(cb, env) ==
    CASE cb.opcode = "Preadv" ->
            IF ~env.alloc_ok
            THEN [ok |-> FALSE, heap |-> <<>>]
            ELSE IF ~env.raw_ok
            THEN [ok |-> FALSE, heap |-> <<"memalign">>]
            ELSE [ok |-> iov_from_buf_direct(cb.iovec, cb.nbytes) = cb.nbytes,
                  heap |-> <<"memalign", "free">>]
      [] cb.opcode = "Pwritev" ->
            IF ~env.alloc_ok
            THEN [ok |-> FALSE, heap |-> <<>>]
            ELSE IF iov_to_buf_direct(cb.iovec, cb.nbytes) # cb.nbytes
            THEN [ok |-> FALSE, heap |-> <<"memalign", "free">>]
            ELSE [ok |-> env.raw_ok, heap |-> <<"memalign", "free">>]
      [] OTHER -> [ok |-> FALSE, heap |-> <<>>]

\* handle_misaligned_rw (lines 258-334), path by path: ok is TRUE for
\* Ok(()), heap the calls of libc::memalign that returned memory and of
\* libc::free, in the order in which they are made.
misaligned_rw(cb, env) ==
    CASE cb.opcode = "Preadv" ->
            IF ~env.alloc_ok
            THEN [ok |-> FALSE, heap |-> <<>>]
            ELSE IF ~env.raw_ok
            THEN [ok |-> FALSE, heap |-> <<"memalign", "free">>]
            ELSE [ok |-> iov_from_buf_direct(cb.iovec, cb.nbytes) = cb.nbytes,
                  heap |-> <<"memalign", "free">>]
      [] cb.opcode = "Pwritev" ->
            IF ~env.alloc_ok
            THEN [ok |-> FALSE, heap |-> <<>>]
            ELSE IF iov_to_buf_direct(cb.iovec, cb.nbytes) # cb.nbytes
            THEN [ok |-> FALSE, heap |-> <<"memalign", "free">>]
            ELSE [ok |-> env.raw_ok, heap |-> <<"memalign", "free">>]
      [] OTHER -> [ok |-> FALSE, heap |-> <<>>]

\* handle_misaligned_rw: TRUE for Ok(()), FALSE for Err.
handle_misaligned_rw(cb, env) == misaligned_rw(cb, env).ok

\* rw_aio, lines 195-201: the result the bounce path passes to complete_func.
BounceResult(cb, env) == IF handle_misaligned_rw(cb, env) THEN 0 ELSE -1

\* Variant of EventResult that passes the raw event result through.
EventResult_Raw(evt, nbytes) ==
    IF evt.status = 0 THEN evt.res ELSE -1

\* handle, lines 123-132: the result passed to complete_func for an event.
EventResult(evt, nbytes) ==
    IF evt.status = 0 /\ evt.res = nbytes THEN evt.res ELSE -1

\* Variant of PopBatch that ignores the room left in in_flight.
RECURSIVE PopBatch_NoRoom(_, _, _, _)
PopBatch_NoRoom(queue, flight, iocbs, room) ==
    IF queue = <<>>
    THEN [queue |-> queue, flight |-> flight, iocbs |-> iocbs]
    ELSE PopBatch_NoRoom(pop_tail_rest(queue),
                         add_head(flight, pop_tail_node(queue)),
                         Append(iocbs, pop_tail_node(queue)),
                         room - 1)

\* Variant of PopBatch that pops from the head of the queue.
RECURSIVE PopBatch_FromHead(_, _, _, _)
PopBatch_FromHead(queue, flight, iocbs, room) ==
    IF room = 0 \/ queue = <<>>
    THEN [queue |-> queue, flight |-> flight, iocbs |-> iocbs]
    ELSE PopBatch_FromHead(pop_head_rest(queue),
                           add_head(flight, pop_head_node(queue)),
                           Append(iocbs, pop_head_node(queue)),
                           room - 1)

\* process_list, lines 148-156: pop up to `room` nodes from the tail of the
\* queue, push each to iocbs and add it at the head of in_flight.
RECURSIVE PopBatch(_, _, _, _)
PopBatch(queue, flight, iocbs, room) ==
    IF room = 0 \/ queue = <<>>
    THEN [queue |-> queue, flight |-> flight, iocbs |-> iocbs]
    ELSE PopBatch(pop_tail_rest(queue),
                  add_head(flight, pop_tail_node(queue)),
                  Append(iocbs, pop_tail_node(queue)),
                  room - 1)

\* Variant of PushBack that drops the nodes it takes from in_flight.
RECURSIVE PushBack_Drop(_, _, _)
PushBack_Drop(queue, flight, count) ==
    IF count <= 0 THEN [queue |-> queue, flight |-> flight]
    ELSE IF flight = <<>> THEN PushBack_Drop(queue, flight, count - 1)
    ELSE PushBack_Drop(queue, pop_head_rest(flight), count - 1)

\* Variant of PushBack that leaves the last node of the batch in in_flight.
RECURSIVE PushBack_OneLess(_, _, _)
PushBack_OneLess(queue, flight, count) ==
    IF count <= 1 THEN [queue |-> queue, flight |-> flight]
    ELSE IF flight = <<>> THEN PushBack_OneLess(queue, flight, count - 1)
    ELSE PushBack_OneLess(add_tail(queue, pop_head_node(flight)),
                          pop_head_rest(flight),
                          count - 1)

\* Variant of PushBack that returns the nodes to the head of the queue.
RECURSIVE PushBack_AtHead(_, _, _)
PushBack_AtHead(queue, flight, count) ==
    IF count <= 0 THEN [queue |-> queue, flight |-> flight]
    ELSE IF flight = <<>> THEN PushBack_AtHead(queue, flight, count - 1)
    ELSE PushBack_AtHead(add_head(queue, pop_head_node(flight)),
                         pop_head_rest(flight),
                         count - 1)

\* process_list, lines 169-175: for index in nr..iocbs.len(), pop the head
\* of in_flight and add it at the tail of the queue.
RECURSIVE PushBack(_, _, _)
PushBack(queue, flight, count) ==
    IF count <= 0 THEN [queue |-> queue, flight |-> flight]
    ELSE IF flight = <<>> THEN PushBack(queue, flight, count - 1)
    ELSE PushBack(add_tail(queue, pop_head_node(flight)),
                  pop_head_rest(flight),
                  count - 1)

\* What ctx.submit may answer for a batch: Ok(nr) with nr <= len, or Err.
SubmitReplies(iocbs) ==
    { [nr |-> n, is_err |-> FALSE] : n \in 0..Len(iocbs) } \cup
    { [nr |-> 0, is_err |-> TRUE] }

\* lastDrain when the last step was not an iteration of process_list.
NoDrain == [iocbs |-> <<>>, nr |-> 0, is_err |-> FALSE,
            queue_before |-> <<>>, flight_before |-> <<>>, cb_ok |-> TRUE]

\* Classification of the arguments of an rw_aio call, stated from the
\* contract of the engine and recorded in reqClass: "mis_ok" and "mis_fail"
\* are direct-I/O requests with an iovec whose base or length is no multiple
\* of the sector size ("mis_ok": the buffer is allocated, the raw transfer
\* succeeds and the iovecs cover nbytes); everything else is "plain".
ArgClass(cb, sector_size, direct, env) ==
    IF direct /\ \E iov \in Range(cb.iovec) :
                    \/ (iov.iov_base \div sector_size) * sector_size # iov.iov_base
                    \/ (iov.iov_len \div sector_size) * sector_size # iov.iov_len
    THEN IF /\ cb.opcode \in {"Preadv", "Pwritev"}
            /\ env.alloc_ok /\ env.raw_ok
            /\ SumLens(IovLens(cb.iovec)) >= cb.nbytes
         THEN "mis_ok" ELSE "mis_fail"
    ELSE "plain"

\* lastCall when the last step was not the entry of an engine call: op is
\* the entry point; ret is "Err" when handle returned an error and dropped
\* the number of events of get_events whose node it did not unlink; heap is
\* the calls of memalign and free of the bounce path; last_aio is
\* cb.last_aio of a request rw_aio queued; cb, raw and ios are the control
\* block rw_sync was given, what raw_read / raw_write returned and the calls
\* of them that rw_sync made.
NoCall == [op |-> "none", ret |-> "none", dropped |-> 0, heap |-> <<>>,
           last_aio |-> FALSE, cb |-> <<>>, raw |-> <<>>, ios |-> <<>>]

\* No call of a copy helper yet.
NoIov == [op |-> "none", iovec |-> <<>>, buf |-> <<>>, ret |-> 0, sent |-> <<>>]

AioInit ==
    /\ aio_in_queue = <<>>
    /\ aio_in_flight = <<>>
    /\ pc = "idle"
    /\ nextId = 1
    /\ reqNbytes = [i \in 1..MaxReqs |-> 0]
    /\ reqRoute = [i \in 1..MaxReqs |-> "none"]
    /\ results = [i \in 1..MaxReqs |-> <<>>]
    /\ kernel = {}
    /\ accepted = <<>>
    /\ lastDrain = NoDrain
    /\ reqClass = [i \in 1..MaxReqs |-> "none"]
    /\ lastCall = NoCall
    /\ mem = [a \in 0..(MemSize - 1) |-> 0]
    /\ iovCall = NoIov

\* rw_aio on the misaligned direct-I/O path (lines 192-205).
RwAioBounce ==
    /\ UNCHANGED <<serVars, iovVars>>
    /\ pc = "idle"
    /\ nextId <= MaxReqs
    /\ \E cb \in AioCbs, ss \in SectorSizes, env \in BounceEnvs :
        /\ Misaligned(cb, ss)
        /\ reqNbytes' = [reqNbytes EXCEPT ![nextId] = cb.nbytes]
        /\ reqRoute' = [reqRoute EXCEPT ![nextId] = "bounce"]
        /\ results' = [results EXCEPT ![nextId] = Append(@, BounceResult(cb, env))]
        /\ reqClass' = [reqClass EXCEPT ![nextId] = ArgClass(cb, ss, TRUE, env)]
        /\ lastCall' = [NoCall EXCEPT !.op = "bounce",
                                      !.heap = misaligned_rw(cb, env).heap]
    /\ nextId' = nextId + 1
    /\ lastDrain' = NoDrain
    /\ UNCHANGED <<aio_in_queue, aio_in_flight, pc, kernel, accepted>>

\* The mutant of NeedDrain that looks at last_aio only.
NeedDrain_LastOnly(last_aio, queue, flight) == last_aio

\* rw_aio, lines 212: the condition under which process_list is called.
NeedDrain(last_aio, queue, flight) ==
    last_aio \/ Len(queue) + Len(flight) >= MaxEvents

\* rw_aio on the aligned path (lines 207-216); direct = FALSE or all iovecs
\* aligned.
RwAioQueue ==
    /\ UNCHANGED <<serVars, iovVars>>
    /\ pc = "idle"
    /\ nextId <= MaxReqs
    /\ \E cb \in AioCbs, ss \in SectorSizes, direct \in BOOLEAN :
        /\ ~(direct /\ Misaligned(cb, ss))
        /\ reqClass' = [reqClass EXCEPT ![nextId] =
                            ArgClass(cb, ss, direct,
                                     [alloc_ok |-> FALSE, raw_ok |-> FALSE])]
        /\ reqNbytes' = [reqNbytes EXCEPT ![nextId] = cb.nbytes]
        /\ reqRoute' = [reqRoute EXCEPT ![nextId] = "aligned"]
        /\ aio_in_queue' = add_head(aio_in_queue, nextId)
        /\ pc' = IF NeedDrain(cb.last_aio, aio_in_queue', aio_in_flight)
                 THEN "drain" ELSE "idle"
        /\ lastCall' = [NoCall EXCEPT !.op = "rw_aio",
                                      !.last_aio = cb.last_aio]
    /\ nextId' = nextId + 1
    /\ lastDrain' = NoDrain
    /\ UNCHANGED <<aio_in_flight, results, kernel, accepted>>

\* handle, lines 119-139: apply the events in order; complete_func fails at
\* event number fail_at (0: never), which makes handle return at once.
RECURSIVE HandleEvents(_, _, _, _, _)
HandleEvents(evts, flight, res, k, fail_at) ==
    IF evts = <<>> THEN [flight |-> flight, results |-> res, failed |-> FALSE,
                         done |-> k - 1]
    ELSE LET evt == Head(evts)
             id == evt.user_data
             res1 == [res EXCEPT ![id] = Append(@, EventResult(evt, reqNbytes[id]))]
         IN  IF k = fail_at
             THEN [flight |-> flight, results |-> res1, failed |-> TRUE,
                   done |-> k - 1]
             ELSE HandleEvents(Tail(evts), unlink(flight, id), res1, k + 1, fail_at)

\* handle (lines 116-142): reap the events, then enter process_list.
Handle ==
    /\ UNCHANGED <<serVars, iovVars>>
    /\ pc = "idle"
    /\ \E evts \in EventSeqs(kernel) :
       \E fail_at \in 0..Len(evts) :
        LET h == HandleEvents(evts, aio_in_flight, results, 1, fail_at)
        IN  /\ aio_in_flight' = h.flight
            /\ results' = h.results
            /\ kernel' = kernel \ { evts[i].user_data : i \in 1..Len(evts) }
            /\ pc' = IF h.failed THEN "idle" ELSE "drain"
            /\ lastCall' = [NoCall EXCEPT !.op = "handle",
                                          !.ret = IF h.failed THEN "Err" ELSE @,
                                          !.dropped = Len(evts) - h.done]
    /\ lastDrain' = NoDrain
    /\ UNCHANGED <<aio_in_queue, nextId, reqNbytes, reqRoute, accepted, reqClass>>

\* The mutant of BreakOnZero that never leaves the loop.
BreakOnZero_Never(nr) == FALSE

\* process_list, lines 182-186: the loop is left when submit took nothing.
BreakOnZero(nr) == nr = 0

\* process_list, line 145: the loop condition.
DrainCond(queue, flight) == Len(queue) > 0 /\ Len(flight) < MaxEvents

\* One iteration of the loop of process_list (lines 146-186), with the
\* backend's answer to submit and the outcome of complete_func as inputs.
DrainStep ==
    /\ UNCHANGED <<serVars, iovVars>>
    /\ pc = "drain"
    /\ DrainCond(aio_in_queue, aio_in_flight)
    /\ LET b == PopBatch(aio_in_queue, aio_in_flight, <<>>,
                         MaxEvents - Len(aio_in_flight))
       IN  \E reply \in SubmitReplies(b.iocbs), cb_ok \in BOOLEAN :
            LET p == PushBack(b.queue, b.flight, Len(b.iocbs) - reply.nr)
                took == SubSeq(b.iocbs, 1, reply.nr)
            IN  /\ kernel' = kernel \cup Range(took)
                /\ accepted' = accepted \o took
                /\ aio_in_flight' = p.flight
                /\ lastDrain' = [iocbs |-> b.iocbs, nr |-> reply.nr,
                                 is_err |-> reply.is_err,
                                 queue_before |-> aio_in_queue,
                                 flight_before |-> aio_in_flight,
                                 cb_ok |-> cb_ok]
                /\ IF reply.is_err
                   THEN IF p.queue # <<>>
                        THEN /\ aio_in_queue' = pop_tail_rest(p.queue)
                             /\ results' = [results EXCEPT ![pop_tail_node(p.queue)] =
                                                Append(@, -1)]
                             /\ pc' = IF cb_ok THEN "drain" ELSE "idle"
                        ELSE /\ aio_in_queue' = p.queue
                             /\ cb_ok
                             /\ UNCHANGED <<results, pc>>
                   ELSE /\ aio_in_queue' = p.queue
                        /\ cb_ok
                        /\ pc' = IF BreakOnZero(reply.nr) THEN "idle" ELSE "drain"
                        /\ UNCHANGED results
    /\ lastCall' = NoCall
    /\ UNCHANGED <<nextId, reqNbytes, reqRoute, reqClass>>

\* process_list, line 145 false: the loop ends and the engine call returns.
DrainExit ==
    /\ UNCHANGED <<serVars, iovVars>>
    /\ pc = "drain"
    /\ ~DrainCond(aio_in_queue, aio_in_flight)
    /\ pc' = "idle"
    /\ lastDrain' = NoDrain
    /\ lastCall' = NoCall
    /\ UNCHANGED <<aio_in_queue, aio_in_flight, nextId, reqNbytes, reqRoute,
                   results, kernel, accepted, reqClass>>

AioNext == RwAioBounce \/ RwAioQueue \/ Handle \/ DrainStep \/ DrainExit


\* ========================================================================
\* virtio-serial device
\* ========================================================================

\* The values for event (serial.rs lines 52-71).
VIRTIO_CONSOLE_DEVICE_READY == 0
VIRTIO_CONSOLE_PORT_ADD == 1
VIRTIO_CONSOLE_PORT_REMOVE == 2
VIRTIO_CONSOLE_PORT_READY == 3
VIRTIO_CONSOLE_CONSOLE_PORT == 4
VIRTIO_CONSOLE_RESIZE == 5
VIRTIO_CONSOLE_PORT_OPEN == 6
VIRTIO_CONSOLE_PORT_NAME == 7

\* size_of::<VirtioConsoleControl>(): id u32, event u16, value u16.
CtrlSize == 8

\* Little-endian byte strings of a u16 and a u32.
LE16(x) == <<x % 256, (x \div 256) % 256>>

LE32(x) == <<x % 256, (x \div 256) % 256, (x \div 65536) % 256, (x \div 16777216) % 256>>

\* LittleEndian::read_u16 / read_u32 on a byte string.
read_u16(b) == b[1] + 256 * b[2]

read_u32(b) == b[1] + 256 * b[2] + 65536 * b[3] + 16777216 * b[4]

\* ByteCode::as_bytes of a VirtioConsoleControl (repr(C), little-endian target).
as_bytes(id, event, value) == LE32(id) \o LE16(event) \o LE16(value)

\* output_control_internal, lines 652-665: the request read from the first
\* 8 bytes of a message.
DecodeCtrl(bytes) ==
    [id |-> read_u32(SubSeq(bytes, 1, 4)),
     event |-> read_u16(SubSeq(bytes, 5, 6)),
     value |-> read_u16(SubSeq(bytes, 7, 8))]

\* Option<String> name of a port: None.
NoName == <<-1>>

\* SerialPort::new for a port configuration (nr, id, is_console, pty backend).
NewPort(nr, name, is_console, is_pty) ==
    [nr |-> nr, name |-> name, is_console |-> is_console,
     guest_connected |-> FALSE,
     host_connected |-> (is_console \/ is_pty),
     ctrl_handler |-> "none",
     deactivated |-> TRUE]

\* "h" and "p1" as UTF-8.
NameH == <<104>>
NameP1 == <<112, 49>>

\* The port lists of the modelled devices (Serial.ports after realization).
PortConfigs ==
    { <<NewPort(0, NameH, TRUE, FALSE), NewPort(1, NameP1, FALSE, TRUE)>>,
      <<NewPort(0, NameH, TRUE, FALSE), NewPort(1, NameP1, FALSE, FALSE)>>,
      <<NewPort(1, NameP1, FALSE, FALSE), NewPort(0, NameH, TRUE, FALSE)>> }

\* The mutant of find_from that falls back to the first port.
find_from_FirstIfMissing(ps, nr, i) ==
    IF \E k \in i..Len(ps) : ps[k].nr = nr
    THEN CHOOSE k \in i..Len(ps) :
            ps[k].nr = nr /\ \A j \in i..(k - 1) : ps[j].nr # nr
    ELSE 1

\* find_port_by_nr: index of the first port with this nr, 0 for None.
RECURSIVE find_from(_, _, _)
find_from(ps, nr, i) ==
    IF i > Len(ps) THEN 0
    ELSE IF ps[i].nr = nr THEN i
    ELSE find_from(ps, nr, i + 1)

find_port_by_nr(ps, nr) == find_from(ps, nr, 1)

\* A chain of device-writable descriptors (Element.in_iovec) is the sequence
\* of its descriptor lengths; as iovecs:
InIovecs(elem) == [i \in 1..Len(elem) |-> Iovec(0, elem[i])]

\* State threaded through the control handler while it handles one message:
\* queue 2, the interrupts raised, the broken flag; notify is the answer of
\* should_notify, ok the result of the last send_input_control_msg.
CtrlCtx(notify) ==
    [avail |-> ctrlRxAvail, used |-> ctrlRxUsed, irqs |-> 0,
     broken |-> device_broken, notify |-> notify, ok |-> TRUE]

\* The mutant of send_input_control_msg that fails on an empty queue.
send_input_control_msg_FailOnEmpty(c, id, event, value, extra) ==
    IF c.avail = <<>>
    THEN [c EXCEPT !.ok = FALSE]
    ELSE LET elem == Head(c.avail)
             in_size == SumLens(elem)
             len == CtrlSize + Len(extra)
             msg_data == as_bytes(id, event, value) \o extra
             size == iov_from_buf_direct(InIovecs(elem), Len(msg_data))
         IN  IF in_size < len \/ size # len
             THEN [c EXCEPT !.avail = Tail(@), !.ok = FALSE]
             ELSE [c EXCEPT !.avail = Tail(@),
                            !.used = Append(@, [len |-> len,
                                                data |-> SubSeq(msg_data, 1, size)]),
                            !.irqs = @ + (IF c.notify THEN 1 ELSE 0),
                            !.ok = TRUE]

\* The mutant of send_input_control_msg that fills a chain that is too
\* small with the start of the message.
send_input_control_msg_Truncate(c, id, event, value, extra) ==
    IF c.avail = <<>>
    THEN [c EXCEPT !.ok = TRUE]
    ELSE LET elem == Head(c.avail)
             msg_data == as_bytes(id, event, value) \o extra
             size == iov_from_buf_direct(InIovecs(elem), Len(msg_data))
         IN  [c EXCEPT !.avail = Tail(@),
                       !.used = Append(@, [len |-> size,
                                           data |-> SubSeq(msg_data, 1, size)]),
                       !.irqs = @ + (IF c.notify THEN 1 ELSE 0),
                       !.ok = TRUE]

\* send_input_control_msg (lines 781-850).
send_input_control_msg(c, id, event, value, extra) ==
    IF c.avail = <<>>
    THEN [c EXCEPT !.ok = TRUE]
    ELSE LET elem == Head(c.avail)
             in_size == SumLens(elem)
             len == CtrlSize + Len(extra)
             msg_data == as_bytes(id, event, value) \o extra
             size == iov_from_buf_direct(InIovecs(elem), Len(msg_data))
         IN  IF in_size < len \/ size # len
             THEN [c EXCEPT !.avail = Tail(@), !.ok = FALSE]
             ELSE [c EXCEPT !.avail = Tail(@),
                            !.used = Append(@, [len |-> len,
                                                data |-> SubSeq(msg_data, 1, size)]),
                            !.irqs = @ + (IF c.notify THEN 1 ELSE 0),
                            !.ok = TRUE]

\* report_virtio_error as far as the device sees it: the broken flag is set.
report_virtio_error(c) == [c EXCEPT !.broken = TRUE]

\* send_control_event (lines 765-779).
send_control_event(c, id, event, value) ==
    LET r == send_input_control_msg(c, id, event, value, <<>>)
    IN  IF r.ok THEN r ELSE report_virtio_error(r)

\* The mutant of send_port_adds that walks the ports from the last one.
RECURSIVE send_port_adds_Reversed(_, _)
send_port_adds_Reversed(c, ps) ==
    IF ps = <<>> THEN c
    ELSE send_port_adds_Reversed(
            send_control_event(c, ps[Len(ps)].nr, VIRTIO_CONSOLE_PORT_ADD, 1),
            SubSeq(ps, 1, Len(ps) - 1))

\* handle_control_message, lines 709-711: PORT_ADD for every port in turn.
RECURSIVE send_port_adds(_, _)
send_port_adds(c, ps) ==
    IF ps = <<>> THEN c
    ELSE send_port_adds(
            send_control_event(c, Head(ps).nr, VIRTIO_CONSOLE_PORT_ADD, 1),
            Tail(ps))

\* The mutant of port_ready that announces PORT_OPEN before the name.
port_ready_OpenFirst(c, port) ==
    LET c1 == IF port.is_console
              THEN send_control_event(c, port.nr, VIRTIO_CONSOLE_CONSOLE_PORT, 1)
              ELSE c
        c2 == IF port.host_connected
              THEN send_control_event(c1, port.nr, VIRTIO_CONSOLE_PORT_OPEN, 1)
              ELSE c1
    IN  IF port.name # NoName
        THEN LET r == send_input_control_msg(
                          c2, port.nr, VIRTIO_CONSOLE_PORT_NAME, 1,
                          Append(port.name, 0))
             IN  IF r.ok THEN r ELSE report_virtio_error(r)
        ELSE c2

\* handle_control_message, lines 723-757: the answer to PORT_READY.
port_ready(c, port) ==
    LET c1 == IF port.is_console
              THEN send_control_event(c, port.nr, VIRTIO_CONSOLE_CONSOLE_PORT, 1)
              ELSE c
        c2 == IF port.name # NoName
              THEN LET r == send_input_control_msg(
                                c1, port.nr, VIRTIO_CONSOLE_PORT_NAME, 1,
                                Append(port.name, 0))
                   IN  IF r.ok THEN r ELSE report_virtio_error(r)
              ELSE c1
    IN  IF port.host_connected
        THEN send_control_event(c2, port.nr, VIRTIO_CONSOLE_PORT_OPEN, 1)
        ELSE c2

\* The mutant of handle_control_message in which PORT_OPEN sets the flag of
\* every port.
handle_control_message_OpenAll(c, ps, ctrl) ==
    IF ctrl.event = VIRTIO_CONSOLE_DEVICE_READY
    THEN IF ctrl.value = 0
         THEN [c |-> c, ports |-> ps]
         ELSE [c |-> send_port_adds(c, ps), ports |-> ps]
    ELSE LET i == find_port_by_nr(ps, ctrl.id)
         IN  IF i = 0 THEN [c |-> c, ports |-> ps]
             ELSE CASE ctrl.event = VIRTIO_CONSOLE_PORT_READY ->
                          IF ctrl.value = 0
                          THEN [c |-> c, ports |-> ps]
                          ELSE [c |-> port_ready(c, ps[i]), ports |-> ps]
                    [] ctrl.event = VIRTIO_CONSOLE_PORT_OPEN ->
                          [c |-> c,
                           ports |-> [k \in 1..Len(ps) |->
                                        [ps[k] EXCEPT !.guest_connected = (ctrl.value # 0)]]]
                    [] OTHER -> [c |-> c, ports |-> ps]

\* handle_control_message (lines 700-763): the new queue-2 context and ports.
handle_control_message(c, ps, ctrl) ==
    IF ctrl.event = VIRTIO_CONSOLE_DEVICE_READY
    THEN IF ctrl.value = 0
         THEN [c |-> c, ports |-> ps]
         ELSE [c |-> send_port_adds(c, ps), ports |-> ps]
    ELSE LET i == find_port_by_nr(ps, ctrl.id)
         IN  IF i = 0 THEN [c |-> c, ports |-> ps]
             ELSE CASE ctrl.event = VIRTIO_CONSOLE_PORT_READY ->
                          IF ctrl.value = 0
                          THEN [c |-> c, ports |-> ps]
                          ELSE [c |-> port_ready(c, ps[i]), ports |-> ps]
                    [] ctrl.event = VIRTIO_CONSOLE_PORT_OPEN ->
                          [c |-> c,
                           ports |-> [ps EXCEPT ![i].guest_connected = (ctrl.value # 0)]]
                    [] OTHER -> [c |-> c, ports |-> ps]

\* Messages a guest may put on the control transmitq: well-formed messages
\* and one that is shorter than the header.
GuestCtrlMsgs ==
    { as_bytes(m[1], m[2], m[3]) :
        m \in { <<0, VIRTIO_CONSOLE_DEVICE_READY, 1>>,
                <<0, VIRTIO_CONSOLE_DEVICE_READY, 0>>,
                <<0, VIRTIO_CONSOLE_DEVICE_READY, 256>>,
                <<0, VIRTIO_CONSOLE_PORT_READY, 1>>,
                <<1, VIRTIO_CONSOLE_PORT_READY, 1>>,
                <<1, VIRTIO_CONSOLE_PORT_READY, 0>>,
                <<2, VIRTIO_CONSOLE_PORT_READY, 1>>,
                <<0, VIRTIO_CONSOLE_PORT_OPEN, 1>>,
                <<1, VIRTIO_CONSOLE_PORT_OPEN, 1>>,
                <<1, VIRTIO_CONSOLE_PORT_OPEN, 0>>,
                <<0, VIRTIO_CONSOLE_RESIZE, 1>> } }
    \cup { <<0, 0, 0, 0>> }

\* Batches of chains a guest may post on the control receiveq at once (each
\* chain is the sequence of its descriptor lengths).
GuestCtrlBufs ==
    { << <<8>> >>,
      << <<4>> >>,
      << <<4, 8>> >>,
      << <<8>>, <<8>> >>,
      << <<8>>, <<4, 8>>, <<8>> >> }

NoReq == [id |-> 0, event |-> 0, value |-> 0]

\* lastOp when the last step was not one of the recorded operations.
NoOp == [op |-> "none", req |-> NoReq, nr |-> 0, q2_avail |-> <<>>,
         q2_nused |-> 0, irqs |-> 0, nqueues |-> 0, before |-> <<>>]

\* lastIo when the last step was not a run of a port handler.
NoIo == [op |-> "none", nr |-> 0, buf |-> <<>>, avail |-> <<>>, nused |-> 0,
         out_before |-> <<>>, fwd |-> FALSE, env_ok |-> FALSE, chains |-> <<>>,
         irqs |-> 0]

\* The port numbers that have a queue pair: 0 .. max_ports - 1 (activate,
\* lines 260-267).
DataNrs == 0..(MaxPorts - 1)

\* lastCfg when the last step was no feature or configuration access.
NoCfg == [op |-> "none", page |-> 0, value |-> {}, before |-> {}, offset |-> 0,
          len |-> 0, ok |-> FALSE, data |-> <<>>]

\* The threads that may run device operations at the same time.
Threads == {1, 2}

\* The mutexes of the device: the ports vector (Serial::ports), each port,
\* its chardev and the chardev's output, each port handler, the control
\* handler and the queues.
Mutexes ==
    { <<"ports", 0>>, <<"ctrl_handler", 0>> }
    \cup { <<"port", nr>> : nr \in DataNrs }
    \cup { <<"chardev", nr>> : nr \in DataNrs }
    \cup { <<"output", nr>> : nr \in DataNrs }
    \cup { <<"port_handler", nr>> : nr \in DataNrs }
    \cup { <<"queue", q>> : q \in 0..(2 * MaxPorts + 1) }

\* A thread that runs no operation.
NoRun == [op |-> "none", prog |-> <<>>, at |-> 1]

\* The device after Serial::new and the realization of the ports `cfg`.
SerialInit(cfgs) ==
    /\ ports \in cfgs
    /\ rxAvail = [nr \in DataNrs |-> <<>>]
    /\ rxUsed = [nr \in DataNrs |-> <<>>]
    /\ txAvail = [nr \in DataNrs |-> <<>>]
    /\ txUsed = [nr \in DataNrs |-> <<>>]
    /\ chardevOut = [nr \in DataNrs |-> <<>>]
    /\ lastIo = NoIo
    /\ device_features = {}
    /\ driver_features = {}
    /\ lastCfg = NoCfg
    /\ active = FALSE
    /\ handlers = {}
    /\ device_broken = FALSE
    /\ panicked = FALSE
    /\ ctrlRxAvail = <<>>
    /\ ctrlRxUsed = <<>>
    /\ ctrlTxAvail = <<>>
    /\ ctrlTxUsed = <<>>
    /\ spc = "idle"
    /\ nStim = 0
    /\ lastOp = NoOp
    /\ lockOwner = [l \in Mutexes |-> 0]
    /\ thr = [t \in Threads |-> NoRun]

CtrlInit == SerialInit(PortConfigs)

\* Serial::queue_num(): 2 queues per port and 2 control queues (lines 149-151).
queue_num == MaxPorts * 2 + 2

\* Serial::activate, lines 260-286, and control_queues_activate, lines
\* 184-186: every port with nr < max_nr_ports gets its handler (the chardev
\* is activated), every port gets the reference to the control handler.
activate_ports(ps) ==
    [i \in 1..Len(ps) |->
        [ps[i] EXCEPT !.ctrl_handler = "live",
                      !.deactivated = IF /\ ps[i].nr < MaxPorts
                                         /\ find_port_by_nr(ps, ps[i].nr) = i
                                      THEN FALSE ELSE @]]

\* The mutant of queue_num_ok that accepts more queues than needed.
queue_num_ok_AtLeast(nqueues) == nqueues >= queue_num

\* Serial::activate, lines 252-258: the check of the number of queues.
queue_num_ok(nqueues) == nqueues = queue_num

\* The mutant of queue_nr that does not skip the control pair.
queue_nr_NoSkip(queue_id) == queue_id

\* Serial::activate, lines 263-267: the port number of queue pair queue_id
\* (queue_id # 1).
queue_nr(queue_id) == IF queue_id = 0 THEN 0 ELSE queue_id - 1

\* Serial::activate, lines 260-286, and control_queues_activate, lines
\* 172-188: the handlers registered for nqueues queues; a data handler has
\* the index of its port in ps, 0 for None.
activate_handlers(ps, nqueues) ==
    { [kind |-> "data", input_queue |-> queue_id * 2,
       output_queue |-> queue_id * 2 + 1, nr |-> queue_nr(queue_id),
       port |-> find_port_by_nr(ps, queue_nr(queue_id))] :
        queue_id \in (0..((nqueues \div 2) - 1)) \ {1} }
    \cup { [kind |-> "control", input_queue |-> 2, output_queue |-> 3,
            nr |-> 0, port |-> 0] }

\* Serial::activate (lines 246-297) with the queues the transport hands in:
\* nqueues of them, all empty.
Activate ==
    /\ UNCHANGED <<aioVars, lockVars, cfgVars>>
    /\ ~active /\ ~panicked
    /\ \A i \in 1..Len(ports) : ports[i].ctrl_handler = "none"
    /\ \E nqueues \in {queue_num - 2, queue_num, queue_num + 2} :
        IF ~queue_num_ok(nqueues)
        THEN /\ lastOp' = [NoOp EXCEPT !.op = "activate_err", !.nqueues = nqueues]
             /\ UNCHANGED <<ports, active, handlers, ctrlRxAvail, ctrlRxUsed, ctrlTxAvail,
                            ctrlTxUsed, dataVars>>
        ELSE /\ lastOp' = [NoOp EXCEPT !.op = "activate", !.nqueues = nqueues]
             /\ ports' = activate_ports(ports)
             /\ active' = TRUE
             /\ handlers' = activate_handlers(ports, nqueues)
             /\ ctrlRxAvail' = <<>>
             /\ ctrlRxUsed' = <<>>
             /\ ctrlTxAvail' = <<>>
             /\ ctrlTxUsed' = <<>>
             /\ rxAvail' = [nr \in DataNrs |-> <<>>]
             /\ rxUsed' = [nr \in DataNrs |-> <<>>]
             /\ txAvail' = [nr \in DataNrs |-> <<>>]
             /\ txUsed' = [nr \in DataNrs |-> <<>>]
             /\ UNCHANGED <<chardevOut, lastIo>>
    /\ UNCHANGED <<device_broken, panicked, spc, nStim>>

\* The mutant of deactivate_port that leaves guest_connected alone.
deactivate_port_KeepGuest(port) ==
    [port EXCEPT !.deactivated = TRUE,
                 !.ctrl_handler = IF @ = "live" THEN "stale" ELSE @]

\* SerialPort::deactivate (lines 388-391); the unregistered control handler
\* is dropped, so the ports' weak references to it go stale.
deactivate_port(port) ==
    [port EXCEPT !.deactivated = TRUE,
                 !.guest_connected = FALSE,
                 !.ctrl_handler = IF @ = "live" THEN "stale" ELSE @]

\* Serial::deactivate (lines 299-307).
Deactivate ==
    /\ UNCHANGED <<aioVars, lockVars, dataVars, cfgVars>>
    /\ active /\ ~panicked /\ spc = "idle"
    /\ ports' = [i \in 1..Len(ports) |-> deactivate_port(ports[i])]
    /\ active' = FALSE
    /\ handlers' = {}
    /\ lastOp' = [NoOp EXCEPT !.op = "deactivate", !.before = ports]
    /\ UNCHANGED <<device_broken, panicked, ctrlRxAvail, ctrlRxUsed, ctrlTxAvail,
                   ctrlTxUsed, spc, nStim>>

\* The guest posts a batch of chains on the control receiveq.
GuestPostCtrlRx ==
    /\ UNCHANGED <<aioVars, lockVars, dataVars, cfgVars>>
    /\ active /\ ~panicked /\ spc = "idle"
    /\ nStim < MaxStimuli
    /\ \E elems \in GuestCtrlBufs : ctrlRxAvail' = ctrlRxAvail \o elems
    /\ nStim' = nStim + 1
    /\ lastOp' = NoOp
    /\ UNCHANGED <<ports, active, handlers, device_broken, panicked, ctrlRxUsed, ctrlTxAvail,
                   ctrlTxUsed, spc>>

\* The guest puts one of the messages `msgs` on the control transmitq.
GuestSendCtrl(msgs) ==
    /\ UNCHANGED <<aioVars, lockVars, dataVars, cfgVars>>
    /\ active /\ ~panicked /\ spc = "idle"
    /\ nStim < MaxStimuli
    /\ \E m \in msgs : ctrlTxAvail' = Append(ctrlTxAvail, m)
    /\ nStim' = nStim + 1
    /\ lastOp' = NoOp
    /\ UNCHANGED <<ports, active, handlers, device_broken, panicked, ctrlRxAvail, ctrlRxUsed,
                   ctrlTxUsed, spc>>

\* The notifier of SerialControlHandler (lines 857-865) runs on the event of
\* queue 3: nothing if the device is broken, else output_control starts.
OutputControlEnter ==
    /\ UNCHANGED <<aioVars, lockVars, dataVars, cfgVars>>
    /\ active /\ ~panicked /\ spc = "idle"
    /\ ctrlTxAvail # <<>>
    /\ IF device_broken
       THEN /\ lastOp' = [NoOp EXCEPT !.op = "ctrl_broken"]
            /\ UNCHANGED spc
       ELSE /\ lastOp' = [NoOp EXCEPT !.op = "ctrl_enter"]
            /\ spc' = "ctrl"
    /\ UNCHANGED <<ports, active, handlers, device_broken, panicked, ctrlRxAvail, ctrlRxUsed,
                   ctrlTxAvail, ctrlTxUsed, nStim>>

\* One iteration of the loop of output_control_internal (lines 644-682)
\* that pops a message; a message shorter than the header makes the handler
\* return an error, which output_control (lines 629-638) reports.
OutputControlStep ==
    /\ UNCHANGED <<aioVars, lockVars, dataVars, cfgVars>>
    /\ spc = "ctrl"
    /\ ctrlTxAvail # <<>>
    /\ \E notify \in BOOLEAN :
        LET bytes == Head(ctrlTxAvail)
            size == Min(Len(bytes), CtrlSize)
        IN  /\ ctrlTxAvail' = Tail(ctrlTxAvail)
            /\ IF size < CtrlSize
               THEN /\ notify
                    /\ device_broken' = TRUE
                    /\ spc' = "idle"
                    /\ lastOp' = [NoOp EXCEPT !.op = "ctrl_short",
                                              !.q2_avail = ctrlRxAvail,
                                              !.q2_nused = Len(ctrlRxUsed)]
                    /\ UNCHANGED <<ports, ctrlRxAvail, ctrlRxUsed, ctrlTxUsed>>
               ELSE LET req == DecodeCtrl(bytes)
                        h == handle_control_message(CtrlCtx(notify), ports, req)
                    IN  /\ ports' = h.ports
                        /\ ctrlRxAvail' = h.c.avail
                        /\ ctrlRxUsed' = h.c.used
                        /\ device_broken' = h.c.broken
                        /\ ctrlTxUsed' = Append(ctrlTxUsed, 0)
                        /\ lastOp' = [op |-> "ctrl_msg", req |-> req, nr |-> 0,
                                      q2_avail |-> ctrlRxAvail,
                                      q2_nused |-> Len(ctrlRxUsed),
                                      irqs |-> h.c.irqs, nqueues |-> 0,
                                      before |-> <<>>]
                        /\ UNCHANGED spc
    /\ UNCHANGED <<active, handlers, panicked, nStim>>

\* output_control_internal, lines 648-650 and 684-697: queue 3 is empty, the
\* loop ends, the guest is notified if should_notify says so.
OutputControlExit ==
    /\ UNCHANGED <<aioVars, lockVars, dataVars, cfgVars>>
    /\ spc = "ctrl"
    /\ ctrlTxAvail = <<>>
    /\ spc' = "idle"
    /\ \E notify \in BOOLEAN :
        lastOp' = [NoOp EXCEPT !.op = "ctrl_exit", !.irqs = IF notify THEN 1 ELSE 0]
    /\ UNCHANGED <<ports, active, handlers, device_broken, panicked, ctrlRxAvail, ctrlRxUsed,
                   ctrlTxAvail, ctrlTxUsed, nStim>>

\* enum ChardevStatus as u16.
ChardevStatusValue(status) == IF status = "Open" THEN 1 ELSE 0

\* chardev_notify, lines 880-884: the new host_connected, or "return".
notify_host_connected(status, host_connected) ==
    CASE status = "Close" -> [ret |-> FALSE, host_connected |-> FALSE]
      [] status = "Open" /\ ~host_connected -> [ret |-> FALSE, host_connected |-> TRUE]
      [] OTHER -> [ret |-> TRUE, host_connected |-> host_connected]

\* SerialPort::chardev_notify (lines 878-897) on the port stored at index i.
\* With a stale reference to the control handler, upgrade() returns None and
\* unwrap() panics, unless the event loop has not dropped the handler yet.
ChardevNotify ==
    /\ UNCHANGED <<aioVars, lockVars, dataVars, cfgVars>>
    /\ ~panicked /\ spc = "idle"
    /\ nStim < MaxStimuli
    /\ nStim' = nStim + 1
    /\ \E i \in 1..Len(ports), status \in {"Open", "Close"}, notify \in BOOLEAN,
          dropped \in BOOLEAN :
        LET n == notify_host_connected(status, ports[i].host_connected)
            ps == [ports EXCEPT ![i].host_connected = n.host_connected]
            c == send_control_event(CtrlCtx(notify), ports[i].nr,
                                    VIRTIO_CONSOLE_PORT_OPEN,
                                    ChardevStatusValue(status))
            op == [NoOp EXCEPT !.op = "chardev_notify", !.nr = ports[i].nr,
                               !.req = [id |-> ports[i].nr,
                                        event |-> VIRTIO_CONSOLE_PORT_OPEN,
                                        value |-> ChardevStatusValue(status)],
                               !.q2_avail = ctrlRxAvail,
                               !.q2_nused = Len(ctrlRxUsed)]
        IN  /\ ports' = ps
            /\ IF n.ret \/ ports[i].ctrl_handler = "none"
               THEN /\ notify /\ dropped
                    /\ lastOp' = op
                    /\ UNCHANGED <<panicked, device_broken, ctrlRxAvail, ctrlRxUsed>>
               ELSE IF ports[i].ctrl_handler = "stale" /\ dropped
               THEN /\ notify
                    /\ panicked' = TRUE
                    /\ lastOp' = [op EXCEPT !.op = "chardev_notify_panic"]
                    /\ UNCHANGED <<device_broken, ctrlRxAvail, ctrlRxUsed>>
               ELSE /\ (ports[i].ctrl_handler = "live" => dropped)
                    /\ ctrlRxAvail' = c.avail
                    /\ ctrlRxUsed' = c.used
                    /\ device_broken' = c.broken
                    /\ lastOp' = [op EXCEPT !.irqs = c.irqs]
                    /\ UNCHANGED panicked
    /\ UNCHANGED <<active, handlers, ctrlTxAvail, ctrlTxUsed, spc>>

\* ------------------------------------------------------------------------
\* SerialPortHandler: the data queues of the ports
\* ------------------------------------------------------------------------

\* A chain on a transmitq is the sequence of its device-readable descriptors
\* (Element.out_iovec), each the bytes the guest put in it; a chain on a
\* receiveq is the sequence of the lengths of its device-writable descriptors.

\* Element::iovec_size: the total length of the out descriptors.
RECURSIVE iovec_size(_)
iovec_size(iovec) ==
    IF iovec = <<>> THEN 0 ELSE Len(Head(iovec)) + iovec_size(Tail(iovec))

\* The bytes of a chain in descriptor order.
RECURSIVE ChainBytes(_)
ChainBytes(iovec) ==
    IF iovec = <<>> THEN <<>> ELSE Head(iovec) \o ChainBytes(Tail(iovec))

\* iov_to_buf(mem_space, iovec, buf): fills buf from the descriptors in
\* order until buf is full or the descriptors end; the bytes read.
RECURSIVE iov_to_buf(_, _)
iov_to_buf(iovec, room) ==
    IF iovec = <<>> \/ room = 0 THEN <<>>
    ELSE LET take == Min(Len(Head(iovec)), room)
         IN  SubSeq(Head(iovec), 1, take) \o iov_to_buf(Tail(iovec), room - take)

\* iov_discard_front(iovec, size).unwrap_or_default(): drops the first size
\* bytes; None (here the empty chain) when nothing is left.
RECURSIVE iov_discard_front(_, _)
iov_discard_front(iovec, size) ==
    IF iovec = <<>> THEN <<>>
    ELSE IF Len(Head(iovec)) > size
         THEN <<SubSeq(Head(iovec), size + 1, Len(Head(iovec)))>> \o Tail(iovec)
         ELSE iov_discard_front(Tail(iovec), size - Len(Head(iovec)))

\* What the chardev does during one run of the output handler: whether it
\* has an output stream, which write_all fails (0: none) and how many bytes
\* of the failing write still reach the stream.
ChardevEnvs ==
    { [has_output |-> TRUE, fail_at |-> 0, partial |-> 0],
      [has_output |-> TRUE, fail_at |-> 1, partial |-> 0],
      [has_output |-> TRUE, fail_at |-> 2, partial |-> 1],
      [has_output |-> FALSE, fail_at |-> 0, partial |-> 0] }

\* State threaded through a run of the output handler: the chardev stream,
\* the buffers handed to write_all for the current chain, the number of
\* write_all calls so far.
OutCtx(out) == [out |-> out, handed |-> <<>>, nwrites |-> 0]

\* write_chardev_msg (lines 494-510).
write_chardev_msg(c, buffer, env) ==
    IF ~env.has_output THEN c
    ELSE IF c.nwrites + 1 = env.fail_at
         THEN [c EXCEPT !.out = @ \o SubSeq(buffer, 1, Min(env.partial, Len(buffer))),
                        !.handed = Append(@, buffer),
                        !.nwrites = @ + 1]
         ELSE [c EXCEPT !.out = @ \o buffer,
                        !.handed = Append(@, buffer),
                        !.nwrites = @ + 1]

\* The mutant of output_chunks that hands over the first chunk only.
output_chunks_FirstOnly(c, iovec, size_left, env) ==
    IF size_left > 0
    THEN write_chardev_msg(c, iov_to_buf(iovec, BUF_SIZE), env)
    ELSE c

\* output_handle_internal, lines 449-464: the chain goes to the chardev in
\* chunks of at most BUF_SIZE bytes.
RECURSIVE output_chunks(_, _, _, _)
output_chunks(c, iovec, size_left, env) ==
    IF size_left > 0
    THEN LET buffer == iov_to_buf(iovec, BUF_SIZE)
             size == Len(buffer)
         IN  output_chunks(write_chardev_msg(c, buffer, env),
                           iov_discard_front(iovec, size), size_left - size, env)
    ELSE c

\* The mutant of output_loop that leaves a chain it does not forward
\* without a used entry.
RECURSIVE output_loop_DroppedUnused(_, _, _, _)
output_loop_DroppedUnused(r, avail, fwd, env) ==
    IF avail = <<>> THEN r
    ELSE LET elem == Head(avail)
             c == IF fwd
                  THEN output_chunks([r.c EXCEPT !.handed = <<>>], elem,
                                     iovec_size(elem), env)
                  ELSE [r.c EXCEPT !.handed = <<>>]
         IN  output_loop_DroppedUnused(
                 [c |-> c,
                  used |-> IF fwd THEN Append(r.used, [elem |-> elem, len |-> 0])
                           ELSE r.used,
                  chains |-> Append(r.chains, c.handed)],
                 Tail(avail), fwd, env)

\* The loop of output_handle_internal (lines 437-476) over the available
\* chains; fwd: the port exists and is host_connected. r collects the
\* chardev context, the used ring and, per chain, what was handed over.
RECURSIVE output_loop(_, _, _, _)
output_loop(r, avail, fwd, env) ==
    IF avail = <<>> THEN r
    ELSE LET elem == Head(avail)
             c == IF fwd
                  THEN output_chunks([r.c EXCEPT !.handed = <<>>], elem,
                                     iovec_size(elem), env)
                  ELSE [r.c EXCEPT !.handed = <<>>]
         IN  output_loop([c |-> c,
                          used |-> Append(r.used, [elem |-> elem, len |-> 0]),
                          chains |-> Append(r.chains, c.handed)],
                         Tail(avail), fwd, env)

\* Chains a guest may put on a transmitq.
TxChains ==
    { << <<1>> >>,
      << <<2, 3>>, <<4, 5, 6>> >>,
      << >> }

\* The queue pairs that the modelled guest drives: those of ports 0 and 1.
GuestNrs == {0, 1}

\* The guest makes a chain available on the transmitq of port nr.
GuestPostTx ==
    /\ UNCHANGED <<aioVars, lockVars, cfgVars, devVars>>
    /\ active /\ ~panicked /\ spc = "idle"
    /\ nStim < MaxStimuli
    /\ nStim' = nStim + 1
    /\ \E nr \in GuestNrs, elem \in TxChains :
        txAvail' = [txAvail EXCEPT ![nr] = Append(@, elem)]
    /\ lastIo' = NoIo
    /\ UNCHANGED <<rxAvail, rxUsed, txUsed, chardevOut>>

\* The notifier of SerialPortHandler (lines 590-598) runs on the event of
\* the transmitq of port nr: nothing if the device is broken, else
\* output_handle (lines 421-492) handles every available chain.
OutputHandle ==
    /\ UNCHANGED <<aioVars, lockVars, cfgVars, devVars, nStim>>
    /\ active /\ ~panicked /\ spc = "idle"
    /\ \E nr \in GuestNrs, env \in ChardevEnvs, notify \in BOOLEAN :
        /\ txAvail[nr] # <<>>
        /\ IF device_broken
           THEN /\ env = CHOOSE e \in ChardevEnvs : TRUE
                /\ notify
                /\ lastIo' = [NoIo EXCEPT !.op = "output_broken", !.nr = nr]
                /\ UNCHANGED <<txAvail, txUsed, chardevOut>>
           ELSE LET i == find_port_by_nr(ports, nr)
                    fwd == i # 0 /\ ports[i].host_connected
                    r == output_loop([c |-> OutCtx(chardevOut[nr]),
                                      used |-> txUsed[nr], chains |-> <<>>],
                                     txAvail[nr], fwd, env)
                IN  /\ txAvail' = [txAvail EXCEPT ![nr] = <<>>]
                    /\ txUsed' = [txUsed EXCEPT ![nr] = r.used]
                    /\ chardevOut' = [chardevOut EXCEPT ![nr] = r.c.out]
                    /\ lastIo' = [NoIo EXCEPT
                                    !.op = "output", !.nr = nr,
                                    !.avail = txAvail[nr],
                                    !.nused = Len(txUsed[nr]),
                                    !.out_before = chardevOut[nr],
                                    !.fwd = fwd,
                                    !.env_ok = /\ env.has_output
                                               /\ \/ env.fail_at = 0
                                                  \/ env.fail_at > r.c.nwrites,
                                    !.chains = r.chains,
                                    !.irqs = IF notify THEN 1 ELSE 0]
    /\ UNCHANGED <<rxAvail, rxUsed>>

\* The mutant of input_chain that records the capacity of the chain.
input_chain_UsedCapacity(r, iovs, buffer) ==
    [written_count |-> SumLens(iovs),
     data |-> SubSeq(buffer, 1, Min(SumLens(iovs), Len(buffer)))]

\* input_handle_internal, lines 530-549: the buffer is copied into the
\* descriptors of one chain; the bytes written and their count.
RECURSIVE input_chain(_, _, _)
input_chain(r, iovs, buffer) ==
    IF iovs = <<>> THEN r
    ELSE LET count == Len(buffer)
             allow_write_count == Min(r.written_count + Head(iovs), count)
             source_slice == SubSeq(buffer, r.written_count + 1, allow_write_count)
             r1 == [written_count |-> allow_write_count,
                    data |-> r.data \o source_slice]
         IN  IF r1.written_count >= count THEN r1
             ELSE input_chain(r1, Tail(iovs), buffer)

\* The loop of input_handle_internal (lines 522-577) over the available
\* chains of the receiveq.
RECURSIVE input_loop(_, _, _)
input_loop(c, buffer, notify) ==
    IF c.avail = <<>> THEN c
    ELSE LET elem == Head(c.avail)
             w == input_chain([written_count |-> 0, data |-> <<>>], elem, buffer)
             c1 == [avail |-> Tail(c.avail),
                    used |-> Append(c.used, [elem |-> elem,
                                             len |-> w.written_count,
                                             data |-> w.data]),
                    irqs |-> c.irqs + (IF notify THEN 1 ELSE 0)]
         IN  IF w.written_count >= Len(buffer) THEN c1
             ELSE input_loop(c1, buffer, notify)

\* Batches of chains a guest may post on a receiveq.
RxChains ==
    { << <<3>> >>,
      << <<1, 2>> >>,
      << <<1>>, <<2>> >> }

\* The buffers the chardev may deliver: at most get_remain_space_size()
\* bytes (lines 623-625).
InputBufs == { b \in { <<>>, <<7>>, <<7, 8>>, <<7, 8, 9>> } : Len(b) <= BUF_SIZE }

\* The guest posts a batch of chains on the receiveq of port nr.
GuestPostRx ==
    /\ UNCHANGED <<aioVars, lockVars, cfgVars, devVars>>
    /\ active /\ ~panicked /\ spc = "idle"
    /\ nStim < MaxStimuli
    /\ nStim' = nStim + 1
    /\ \E nr \in GuestNrs, elems \in RxChains :
        rxAvail' = [rxAvail EXCEPT ![nr] = @ \o elems]
    /\ lastIo' = NoIo
    /\ UNCHANGED <<rxUsed, txAvail, txUsed, chardevOut>>

\* The mutant of input_dropped that drops only an empty buffer.
input_dropped_EmptyOnly(buffer, port) == Len(buffer) = 0

\* input_handle_internal, lines 515-520: the early return.  The handler's
\* port is always Some for the handler of a port's chardev.
input_dropped(buffer, port) == Len(buffer) = 0 \/ ~port.guest_connected

\* The chardev of the port stored at index i delivers a buffer: input_handle
\* (lines 612-621) of the handler that Serial::activate gave to the port.
InputHandle ==
    /\ UNCHANGED <<aioVars, lockVars, cfgVars, devVars, nStim>>
    /\ ~panicked /\ spc = "idle"
    /\ \E i \in 1..Len(ports), buffer \in InputBufs, notify \in BOOLEAN :
        LET nr == ports[i].nr
            c == input_loop([avail |-> rxAvail[nr], used |-> rxUsed[nr], irqs |-> 0],
                            buffer, notify)
        IN  /\ ~ports[i].deactivated
            /\ IF input_dropped(buffer, ports[i])
               THEN /\ notify
                    /\ lastIo' = [NoIo EXCEPT !.op = "input_skip", !.nr = nr,
                                              !.buf = buffer]
                    /\ UNCHANGED <<rxAvail, rxUsed>>
               ELSE /\ rxAvail' = [rxAvail EXCEPT ![nr] = c.avail]
                    /\ rxUsed' = [rxUsed EXCEPT ![nr] = c.used]
                    /\ lastIo' = [NoIo EXCEPT !.op = "input", !.nr = nr,
                                              !.buf = buffer,
                                              !.avail = rxAvail[nr],
                                              !.nused = Len(rxUsed[nr]),
                                              !.irqs = c.irqs]
    /\ UNCHANGED <<txAvail, txUsed, chardevOut>>

CtrlNext ==
    \/ Activate
    \/ Deactivate
    \/ GuestPostCtrlRx
    \/ GuestSendCtrl(GuestCtrlMsgs)
    \/ OutputControlEnter
    \/ OutputControlStep
    \/ OutputControlExit
    \/ ChardevNotify

\* The serial device at rest, for the behaviours of the AIO engine.
SerialAtRest ==
    SerialInit({<<NewPort(0, NameH, TRUE, FALSE), NewPort(1, NameP1, FALSE, TRUE)>>})

InitSerialCtrl == AioInit /\ CtrlInit

SpecSerialCtrl == InitSerialCtrl /\ [][CtrlNext]_vars

\* The messages with which a guest opens and closes its end of a port.
PortOpenMsgs ==
    { as_bytes(0, VIRTIO_CONSOLE_PORT_OPEN, 1),
      as_bytes(1, VIRTIO_CONSOLE_PORT_OPEN, 1),
      as_bytes(1, VIRTIO_CONSOLE_PORT_OPEN, 0) }

\* The receive path: the guest opens ports over the control queues, posts
\* chains on the receiveqs, the chardevs deliver input.
RxNext ==
    \/ Activate
    \/ GuestSendCtrl(PortOpenMsgs)
    \/ OutputControlEnter
    \/ OutputControlStep
    \/ OutputControlExit
    \/ GuestPostRx
    \/ InputHandle

InitSerialRx == AioInit /\ SerialInit(PortConfigs)

SpecSerialRx == InitSerialRx /\ [][RxNext]_vars

\* Port lists for the transmit path: also a device whose port 1 is absent.
TxPortConfigs == PortConfigs \cup { <<NewPort(0, NameH, TRUE, FALSE)>> }

\* The transmit path: the guest puts chains on the transmitqs.
TxNext ==
    \/ Activate
    \/ GuestPostTx
    \/ OutputHandle

InitSerialTx == AioInit /\ SerialInit(TxPortConfigs)

SpecSerialTx == InitSerialTx /\ [][TxNext]_vars

InitAio == AioInit /\ SerialAtRest

SpecAio == InitAio /\ [][AioNext]_vars

\* ------------------------------------------------------------------------
\* The copy helpers iov_from_buf_direct and iov_to_buf_direct
\* ------------------------------------------------------------------------

\* Iovec lists a caller may pass: none, one, two adjacent, two apart, two
\* that overlap, and one with an empty first element.  All lie in memory.
IovLists ==
    { <<>>,
      <<Iovec(0, 2)>>,
      <<Iovec(0, 2), Iovec(2, 1)>>,
      <<Iovec(2, 1), Iovec(0, 2)>>,
      <<Iovec(0, 2), Iovec(1, 2)>>,
      <<Iovec(3, 0), Iovec(1, 2)>> }

\* Buffers a caller may pass to iov_from_buf_direct.
SrcBufs == UNION { [1..n -> {1, 2}] : n \in 0..MaxBufLen }

\* Buffers a caller may pass to iov_to_buf_direct: filled with 3.
DstBufs == { [k \in 1..n |-> 3] : n \in 0..MaxBufLen }

\* iov_from_buf_direct (lines 355-368).
IovFromBuf ==
    /\ UNCHANGED <<serVars, engineVars>>
    /\ \E iovec \in IovLists, buf \in SrcBufs :
        /\ mem' = iov_from_buf_copy(iovec, buf, 0, 0, mem).mem
        /\ iovCall' = [op |-> "iov_from_buf_direct", iovec |-> iovec, buf |-> buf,
                       ret |-> iov_from_buf_copy(iovec, buf, 0, 0, mem).ret,
                       sent |-> <<>>]

\* iov_to_buf_direct (lines 379-392).  sent is the buffer that the call of
\* iov_from_buf_direct before it scattered over the same iovecs, when that
\* buffer had the size of this one.
IovToBuf ==
    /\ UNCHANGED <<serVars, engineVars, mem>>
    /\ \E iovec \in IovLists, buf \in DstBufs :
        iovCall' = [op |-> "iov_to_buf_direct", iovec |-> iovec,
                    buf |-> iov_to_buf_copy(iovec, buf, 0, 0, mem).buf,
                    ret |-> iov_to_buf_copy(iovec, buf, 0, 0, mem).ret,
                    sent |-> IF /\ iovCall.op = "iov_from_buf_direct"
                                /\ iovCall.iovec = iovec
                                /\ Len(iovCall.buf) = Len(buf)
                             THEN <<iovCall.buf>> ELSE <<>>]

IovNext == IovFromBuf \/ IovToBuf

SpecIov == InitAio /\ [][IovNext]_vars

\* Control blocks a caller may pass to rw_sync.
SyncCbs ==
    { [opcode |-> op, iovec |-> iv, offset |-> off] :
        op \in OpCodes, iv \in IovecChoices \cup {<<>>}, off \in {0, 5} }

\* What raw_read / raw_write may return for a transfer of len bytes: Ok(n)
\* with n <= len, or an error.
RawReturns(len) ==
    { [ok |-> TRUE, n |-> k] : k \in {0, len} } \cup { [ok |-> FALSE, n |-> 0] }

\* The returns of the raw calls for the iovecs of a list, one per iovec.
RECURSIVE RawReturnSeqs(_)
RawReturnSeqs(iovec) ==
    IF iovec = <<>> THEN {<<>>}
    ELSE { <<r>> \o rest : r \in RawReturns(Head(iovec).iov_len),
                            rest \in RawReturnSeqs(Tail(iovec)) }

\* The mutant of rw_sync_loop that does not advance the offset.
RECURSIVE rw_sync_loop_NoAdvance(_, _, _, _, _, _)
rw_sync_loop_NoAdvance(kind, iovec, raw, off, r, ios) ==
    IF iovec = <<>> THEN [ret |-> r, ios |-> ios]
    ELSE LET iov == Head(iovec)
             r1 == IF Head(raw).ok THEN Head(raw).n ELSE -1
             ios1 == Append(ios, [kind |-> kind, base |-> iov.iov_base,
                                  len |-> iov.iov_len, off |-> off])
         IN  IF r1 < 0 THEN [ret |-> r1, ios |-> ios1]
             ELSE rw_sync_loop_NoAdvance(kind, Tail(iovec), Tail(raw), off, r1, ios1)

\* rw_sync, lines 222-235 and 238-251: the loop over the iovecs; r and off
\* are the loop's variables, raw the returns of the raw calls still to come,
\* ios the raw calls made so far.
RECURSIVE rw_sync_loop(_, _, _, _, _, _)
rw_sync_loop(kind, iovec, raw, off, r, ios) ==
    IF iovec = <<>> THEN [ret |-> r, ios |-> ios]
    ELSE LET iov == Head(iovec)
             r1 == IF Head(raw).ok THEN Head(raw).n ELSE -1
             ios1 == Append(ios, [kind |-> kind, base |-> iov.iov_base,
                                  len |-> iov.iov_len, off |-> off])
         IN  IF r1 < 0 THEN [ret |-> r1, ios |-> ios1]
             ELSE rw_sync_loop(kind, Tail(iovec), Tail(raw), off + iov.iov_len,
                               r1, ios1)

\* rw_sync, lines 220-254: the value passed to complete_func and the raw
\* calls made.
rw_sync(cb, raw) ==
    CASE cb.opcode = "Preadv" ->
            rw_sync_loop("raw_read", cb.iovec, raw, cb.offset, 0, <<>>)
      [] cb.opcode = "Pwritev" ->
            rw_sync_loop("raw_write", cb.iovec, raw, cb.offset, 0, <<>>)
      [] OTHER -> [ret |-> -1, ios |-> <<>>]

\* rw_sync (lines 219-256).
RwSync ==
    /\ UNCHANGED <<serVars, iovVars>>
    /\ pc = "idle"
    /\ nextId <= MaxReqs
    /\ \E cb \in SyncCbs :
       \E raw \in RawReturnSeqs(cb.iovec) :
        /\ results' = [results EXCEPT ![nextId] = Append(@, rw_sync(cb, raw).ret)]
        /\ lastCall' = [NoCall EXCEPT !.op = "rw_sync", !.cb = cb, !.raw = raw,
                                      !.ios = rw_sync(cb, raw).ios]
    /\ reqRoute' = [reqRoute EXCEPT ![nextId] = "sync"]
    /\ reqClass' = [reqClass EXCEPT ![nextId] = "sync"]
    /\ nextId' = nextId + 1
    /\ lastDrain' = NoDrain
    /\ UNCHANGED <<aio_in_queue, aio_in_flight, pc, reqNbytes, kernel, accepted>>

\* Synchronous requests between calls of rw_aio.
AioSyncNext == RwSync \/ RwAioQueue \/ DrainStep \/ DrainExit

SpecAioSync == InitAio /\ [][AioSyncNext]_vars

\* The calls that go through pending and in-flight.
AioQueueNext == RwAioQueue \/ Handle \/ DrainStep \/ DrainExit

\* The engine with a thread that goes on running: a call that is inside
\* process_list takes its next step.
SpecAioLive ==
    InitAio /\ [][AioQueueNext]_vars /\ WF_vars(DrainStep) /\ WF_vars(DrainExit)

\* ------------------------------------------------------------------------
\* Feature negotiation and configuration space
\* ------------------------------------------------------------------------

\* A feature word is the set of its bits: 0..31 are page 0, 32..63 page 1.
VIRTIO_F_VERSION_1 == 32
VIRTIO_CONSOLE_F_SIZE == 0
VIRTIO_CONSOLE_F_MULTIPORT == 1

\* init_config_features (lines 231-236): the offered features.
OfferedFeatures ==
    {VIRTIO_F_VERSION_1, VIRTIO_CONSOLE_F_SIZE, VIRTIO_CONSOLE_F_MULTIPORT}

\* device_features(select) / driver_features(select): page `page` of a
\* feature word as a u32.
features_page(features, page) ==
    { b - 32 * page : b \in { x \in features : x \div 32 = page } }

\* A u32 placed on page `page` of a feature word.
on_page(value, page) == { b + 32 * page : b \in value }

\* The mutant of set_driver_features that acknowledges whatever is requested.
set_driver_features_NoMask(dev, drv, page, value) ==
    { b \in drv : b \div 32 # page } \cup on_page(value, page)

\* The mutant of set_driver_features that forgets the page it does not write.
set_driver_features_OnePage(dev, drv, page, value) ==
    on_page(value \cap features_page(dev, page), page)

\* VirtioDevice::set_driver_features(page, value): the requested bits that
\* the device does not offer are dropped, the rest become page `page` of
\* driver_features, the other page stays.
set_driver_features(dev, drv, page, value) ==
    { b \in drv : b \div 32 # page }
        \cup on_page(value \cap features_page(dev, page), page)

\* The feature words that test_set_driver_features gives the device (lines
\* 919, 934, 948, 955).
TestDeviceFeatures ==
    { {},
      {VIRTIO_F_VERSION_1, VIRTIO_CONSOLE_F_SIZE},
      {VIRTIO_F_VERSION_1},
      OfferedFeatures }

\* The values a driver may write to a feature page (bit 2 is never offered).
DriverRequests == SUBSET {0, 1, 2}

FeaturePages == {0, 1}

\* Serial::realize (lines 226-229).
Realize ==
    /\ UNCHANGED <<aioVars, lockVars, ctrlVars, dataVars>>
    /\ ~active
    /\ device_features' = OfferedFeatures
    /\ lastCfg' = [NoCfg EXCEPT !.op = "realize"]
    /\ UNCHANGED driver_features

\* test_set_driver_features, lines 919-955: the test gives the device a
\* feature word, with driver_features at 0.
TestSetDeviceFeatures ==
    /\ UNCHANGED <<aioVars, lockVars, ctrlVars, dataVars>>
    /\ ~active
    /\ \E f \in TestDeviceFeatures : device_features' = f
    /\ driver_features' = {}
    /\ lastCfg' = [NoCfg EXCEPT !.op = "test_features"]

\* The transport writes a page of the driver features.
SetDriverFeatures ==
    /\ UNCHANGED <<aioVars, lockVars, ctrlVars, dataVars>>
    /\ ~active
    /\ \E page \in FeaturePages, value \in DriverRequests :
        /\ driver_features' =
              set_driver_features(device_features, driver_features, page, value)
        /\ lastCfg' = [NoCfg EXCEPT !.op = "set_driver_features",
                                    !.page = page, !.value = value,
                                    !.before = driver_features]
    /\ UNCHANGED device_features

\* size_of::<VirtioConsoleConfig>(): cols u16, rows u16, max_nr_ports u32,
\* emerg_wr u32.
CfgSize == 12

\* VirtioConsoleConfig::new(max_nr_ports).as_bytes() (lines 88-113).
config_bytes(max_nr_ports) ==
    LE16(0) \o LE16(0) \o LE32(max_nr_ports) \o LE32(0)

\* The mutant of read_config_default that only rejects an offset past the
\* end and returns what is left of the configuration.
read_config_default_Clipped(config, offset, len) ==
    IF offset >= Len(config)
    THEN [ok |-> FALSE, data |-> <<>>]
    ELSE [ok |-> TRUE,
          data |-> SubSeq(config, offset + 1, Min(offset + len, Len(config)))]

\* read_config_default(config, offset, data): fails if offset + len is past
\* the end of the configuration, else returns that slice.
read_config_default(config, offset, len) ==
    IF offset + len > Len(config)
    THEN [ok |-> FALSE, data |-> <<>>]
    ELSE [ok |-> TRUE, data |-> SubSeq(config, offset + 1, offset + len)]

\* The numbers of ports of the devices whose configuration is read: this
\* device's and that of test_read_config (line 976).
ConfigPorts == {MaxPorts, 31}

\* Serial::read_config (lines 238-240).
ReadConfig ==
    /\ UNCHANGED <<aioVars, lockVars, ctrlVars, dataVars>>
    /\ \E n \in ConfigPorts, offset \in 0..(CfgSize + 1), len \in 0..(CfgSize + 1) :
        LET r == read_config_default(config_bytes(n), offset, len)
        IN  lastCfg' = [NoCfg EXCEPT !.op = "read_config", !.page = n,
                                     !.offset = offset, !.len = len,
                                     !.ok = r.ok, !.data = r.data]
    /\ UNCHANGED <<device_features, driver_features>>

\* Feature negotiation, before the device is activated.
FeatNext ==
    \/ Realize
    \/ TestSetDeviceFeatures
    \/ SetDriverFeatures

InitSerialFeat == AioInit /\ SerialAtRest

SpecSerialFeat == InitSerialFeat /\ [][FeatNext]_vars

\* Reads of the configuration space.
ReadNext == ReadConfig \/ Realize

InitSerialRead == AioInit /\ SerialAtRest

SpecSerialRead == InitSerialRead /\ [][ReadNext]_vars

\* ------------------------------------------------------------------------
\* The mutexes the device operations take
\* ------------------------------------------------------------------------

\* The steps of a MutexGuard that lives over the steps `inner`: lock() when
\* the guard is made, unlock when it is dropped.
Hold(l, inner) == << <<"acq", l>> >> \o inner \o << <<"rel", l>> >>

\* The queue pair of port nr: the inverse of queue_nr (activate, lines
\* 263-267).
port_pair(nr) == IF nr = 0 THEN 0 ELSE nr + 1

\* find_port_by_nr (lines 205-215): the guard of the vector lives over the
\* loop, the guard of a port over the test of its nr.
find_port_by_nr_locks(ps, nr) ==
    LET found == find_port_by_nr(ps, nr)
        last == IF found = 0 THEN Len(ps) ELSE found
    IN  Hold(<<"ports", 0>>,
             Concat([i \in 1..last |-> Hold(<<"port", ps[i].nr>>, <<>>)]))

\* send_control_event / send_input_control_msg (line 788): the guard of
\* queue 2 lives to the end of the function.
send_control_event_locks == Hold(<<"queue", 2>>, <<>>)

\* handle_control_message (lines 700-763): DEVICE_READY holds the vector and,
\* to the end of each send_control_event statement, the port whose nr is the
\* argument (line 710); PORT_READY holds the port over its sends (line 729);
\* PORT_OPEN holds it for the assignment (line 759).
handle_control_message_locks(ps, ctrl) ==
    IF ctrl.event = VIRTIO_CONSOLE_DEVICE_READY
    THEN IF ctrl.value = 0 THEN <<>>
         ELSE Hold(<<"ports", 0>>,
                   Concat([i \in 1..Len(ps) |->
                             Hold(<<"port", ps[i].nr>>, send_control_event_locks)]))
    ELSE LET i == find_port_by_nr(ps, ctrl.id)
         IN  find_port_by_nr_locks(ps, ctrl.id) \o
             (IF i = 0 THEN <<>>
              ELSE IF ctrl.event = VIRTIO_CONSOLE_PORT_READY
              THEN IF ctrl.value = 0 THEN <<>>
                   ELSE Hold(<<"port", ps[i].nr>>,
                             (IF ps[i].is_console
                              THEN send_control_event_locks ELSE <<>>)
                             \o (IF ps[i].name # NoName
                                 THEN send_control_event_locks ELSE <<>>)
                             \o (IF ps[i].host_connected
                                 THEN send_control_event_locks ELSE <<>>))
              ELSE IF ctrl.event = VIRTIO_CONSOLE_PORT_OPEN
              THEN Hold(<<"port", ps[i].nr>>, <<>>)
              ELSE <<>>)

\* The notifier of the control handler (lines 857-865) and
\* output_control_internal (lines 640-698) for one message: the guard of the
\* handler lives over output_control, the guard of queue 3 over the loop.
output_control_locks(ps, ctrl) ==
    Hold(<<"ctrl_handler", 0>>,
         Hold(<<"queue", 3>>, handle_control_message_locks(ps, ctrl)))

\* write_chardev_msg (lines 494-510): port, then its chardev, then the
\* chardev's output, on which write_all and flush run (lines 501-506); the
\* guard of the port is the local `chardev` and lives to the end of the
\* function.
write_chardev_msg_locks(nr) ==
    Hold(<<"port", nr>>,
         Hold(<<"chardev", nr>>,
              Hold(<<"output", nr>>, << <<"io", <<"output", nr>> >> >>)))

\* The notifier of a port handler (lines 590-598) and output_handle_internal
\* (lines 434-492) for one chain of one chunk.
output_handle_locks(ps, nr) ==
    LET i == find_port_by_nr(ps, nr)
    IN  Hold(<<"port_handler", nr>>,
             Hold(<<"queue", 2 * port_pair(nr) + 1>>,
                  IF i = 0 THEN <<>>
                  ELSE Hold(<<"port", nr>>, <<>>) \o
                       (IF ps[i].host_connected
                        THEN write_chardev_msg_locks(nr) ELSE <<>>)))

\* input_handle (lines 612-621), called on the locked handler of the port,
\* and input_handle_internal (lines 512-520).
input_handle_locks(ps, nr) ==
    LET i == find_port_by_nr(ps, nr)
    IN  Hold(<<"port_handler", nr>>,
             Hold(<<"queue", 2 * port_pair(nr)>>,
                  IF i = 0 THEN <<>> ELSE Hold(<<"port", nr>>, <<>>)))

\* chardev_notify (lines 878-897), called on the locked port: the control
\* handler is locked for the send (line 888).
chardev_notify_locks(ps, i, status) ==
    Hold(<<"port", ps[i].nr>>,
         IF notify_host_connected(status, ps[i].host_connected).ret
            \/ ps[i].ctrl_handler = "none"
         THEN <<>>
         ELSE Hold(<<"ctrl_handler", 0>>, send_control_event_locks))

\* Serial::activate (lines 260-296): for each queue pair the port is looked
\* up, the new handler is locked by internal_notifiers (line 601) and the
\* port by SerialPort::activate, which locks the chardev twice (lines
\* 383-386); control_queues_activate (lines 184-187) walks the vector.
activate_locks(ps) ==
    Concat([k \in 1..(MaxPorts + 1) |->
              IF k = 2 THEN <<>>
              ELSE LET nr == queue_nr(k - 1)
                   IN  find_port_by_nr_locks(ps, nr)
                       \o Hold(<<"port_handler", nr>>, <<>>)
                       \o (IF find_port_by_nr(ps, nr) = 0 THEN <<>>
                           ELSE Hold(<<"port", nr>>,
                                     Hold(<<"chardev", nr>>, <<>>)
                                     \o Hold(<<"chardev", nr>>, <<>>)))])
    \o Hold(<<"ports", 0>>,
            Concat([i \in 1..Len(ps) |-> Hold(<<"port", ps[i].nr>>, <<>>)]))
    \o Hold(<<"ctrl_handler", 0>>, <<>>)

\* Serial::deactivate (lines 299-306) and SerialPort::deactivate (lines
\* 388-391).
deactivate_locks(ps) ==
    Hold(<<"ports", 0>>,
         Concat([i \in 1..Len(ps) |->
                   Hold(<<"port", ps[i].nr>>, Hold(<<"chardev", ps[i].nr>>, <<>>))]))

\* The control messages whose handling is run.
LockCtrlMsgs ==
    { [id |-> 0, event |-> VIRTIO_CONSOLE_DEVICE_READY, value |-> 1],
      [id |-> 1, event |-> VIRTIO_CONSOLE_PORT_READY, value |-> 1],
      [id |-> 0, event |-> VIRTIO_CONSOLE_PORT_OPEN, value |-> 1] }

\* The operations a thread may run on the activated device, each with the
\* steps it takes on the mutexes.
LockPrograms(ps) ==
    { [op |-> "output_control", prog |-> output_control_locks(ps, ctrl)] :
        ctrl \in LockCtrlMsgs }
    \cup { [op |-> "output_handle", prog |-> output_handle_locks(ps, nr)] :
            nr \in GuestNrs }
    \cup { [op |-> "input_handle", prog |-> input_handle_locks(ps, nr)] :
            nr \in GuestNrs }
    \cup { [op |-> "chardev_notify", prog |-> chardev_notify_locks(ps, i, "Close")] :
            i \in 1..Len(ps) }
    \cup { [op |-> "activate", prog |-> activate_locks(ps)],
           [op |-> "deactivate", prog |-> deactivate_locks(ps)] }

\* The step thread t is at; <<"end", 0>> behind the last one.
NextLockStep(t) ==
    IF thr[t].at <= Len(thr[t].prog) THEN thr[t].prog[thr[t].at] ELSE <<"end", <<"none", 0>> >>

\* A thread enters an operation.
ThreadStart(t) ==
    /\ UNCHANGED <<aioVars, ctrlVars, dataVars, cfgVars, lockOwner>>
    /\ thr[t].op = "none"
    /\ \E r \in LockPrograms(activate_ports(ports)) :
        thr' = [thr EXCEPT ![t] = [op |-> r.op, prog |-> r.prog, at |-> 1]]

\* Mutex::lock: the thread goes on when the mutex is free.
ThreadLock(t) ==
    /\ UNCHANGED <<aioVars, ctrlVars, dataVars, cfgVars>>
    /\ NextLockStep(t)[1] = "acq"
    /\ lockOwner[NextLockStep(t)[2]] = 0
    /\ lockOwner' = [lockOwner EXCEPT ![NextLockStep(t)[2]] = t]
    /\ thr' = [thr EXCEPT ![t].at = @ + 1]

\* The guard is dropped.
ThreadUnlock(t) ==
    /\ UNCHANGED <<aioVars, ctrlVars, dataVars, cfgVars>>
    /\ NextLockStep(t)[1] = "rel"
    /\ lockOwner' = [lockOwner EXCEPT ![NextLockStep(t)[2]] = 0]
    /\ thr' = [thr EXCEPT ![t].at = @ + 1]

\* write_all and flush on the output of a chardev return.
ThreadIo(t) ==
    /\ UNCHANGED <<aioVars, ctrlVars, dataVars, cfgVars, lockOwner>>
    /\ NextLockStep(t)[1] = "io"
    /\ thr' = [thr EXCEPT ![t].at = @ + 1]

\* The operation returns.
ThreadReturn(t) ==
    /\ UNCHANGED <<aioVars, ctrlVars, dataVars, cfgVars, lockOwner>>
    /\ thr[t].op # "none"
    /\ NextLockStep(t)[1] = "end"
    /\ thr' = [thr EXCEPT ![t] = NoRun]

LockNext ==
    \E t \in Threads :
        \/ ThreadStart(t)
        \/ ThreadLock(t)
        \/ ThreadUnlock(t)
        \/ ThreadIo(t)
        \/ ThreadReturn(t)

InitSerialLocks == AioInit /\ SerialInit(PortConfigs)

SpecSerialLocks == InitSerialLocks /\ [][LockNext]_vars

\* ========================================================================
\* Properties of the AIO engine (checked under SpecAio)
\* ========================================================================

Issued == 1..(nextId - 1)

Reverse(s) == [i \in 1..Len(s) |-> s[Len(s) + 1 - i]]

InList(l, x) == \E i \in 1..Len(l) : l[i] = x

\* C1: for every request handed to rw_aio the completion callback is invoked
\* at most once, and exactly once as soon as the request is in neither the
\* pending nor the in-flight list.
C1_CallbackExactlyOnce ==
    \A id \in Issued :
        /\ Len(results[id]) <= 1
        /\ (~InList(aio_in_queue, id) /\ ~InList(aio_in_flight, id))
              => Len(results[id]) = 1

\* C1 witness: one request was completed by a backend event, another was
\* failed after a submit error, a third went through the bounce path.
C1_Witness ==
    \E a, b, c \in Issued :
        /\ InList(accepted, a) /\ ~InList(aio_in_flight, a) /\ Len(results[a]) = 1
        /\ reqRoute[b] = "aligned" /\ ~InList(accepted, b) /\ results[b] = <<-1>>
        /\ reqRoute[c] = "bounce" /\ Len(results[c]) = 1

\* C2 (as claimed): every result passed to the completion callback, on the
\* bounce path too, is the request's nbytes or -1.
C2_ResultNbytesOrMinusOne ==
    \A id \in Issued :
        \A i \in 1..Len(results[id]) :
            results[id][i] = reqNbytes[id] \/ results[id][i] = -1

\* C2 (amended): a request that went through pending/in-flight is completed
\* with its nbytes or with -1; a request completed by the bounce path is
\* completed with 0 or with -1.
C2_ResultByPath ==
    \A id \in Issued :
        \A i \in 1..Len(results[id]) :
            /\ reqRoute[id] = "aligned" =>
                  (results[id][i] = reqNbytes[id] \/ results[id][i] = -1)
            /\ reqRoute[id] = "bounce" =>
                  (results[id][i] = 0 \/ results[id][i] = -1)

\* C2 witness: an event completed one request with nbytes, another with -1,
\* and a bounce request was completed with 0.
C2_Witness ==
    \E a, b, c \in Issued :
        /\ InList(accepted, a) /\ results[a] = <<reqNbytes[a]>>
        /\ InList(accepted, b) /\ results[b] = <<-1>>
        /\ reqRoute[c] = "bounce" /\ results[c] = <<0>> /\ reqNbytes[c] # 0

\* C3: the in-flight list never holds more than max_events requests.
C3_InFlightBounded == Len(aio_in_flight) <= MaxEvents

\* C3 witness: in-flight is full while requests are still pending.
C3_Witness == Len(aio_in_flight) = MaxEvents /\ Len(aio_in_queue) > 0

\* A process_list iteration has just run in which the backend accepted only
\* the first nr < m requests of the batch, without error.
PartialSubmit ==
    /\ lastDrain.iocbs # <<>>
    /\ ~lastDrain.is_err
    /\ lastDrain.nr < Len(lastDrain.iocbs)

\* C4: after a partial submit the accepted requests are at the head of
\* in-flight, and pending pops (tail first) the unaccepted requests in their
\* old order, followed by what was pending behind the batch; the next
\* iteration's batch starts with the oldest unaccepted request.
C4_StateAfterPartial ==
    PartialSubmit =>
        /\ aio_in_flight =
              Reverse(SubSeq(lastDrain.iocbs, 1, lastDrain.nr)) \o lastDrain.flight_before
        /\ Reverse(aio_in_queue) =
              SubSeq(Reverse(lastDrain.queue_before), lastDrain.nr + 1,
                     Len(lastDrain.queue_before))
        /\ pop_tail_node(aio_in_queue) = lastDrain.iocbs[lastDrain.nr + 1]

C4_NextBatch ==
    (PartialSubmit /\ lastDrain'.iocbs # <<>>)
        => Head(lastDrain'.iocbs) = lastDrain.iocbs[lastDrain.nr + 1]

C4_PartialSubmitKeepsOrder == [](C4_StateAfterPartial) /\ [][C4_NextBatch]_vars

\* C4 witness: some but not all requests of a batch were accepted and a
\* request that was not in the batch is pending behind the returned ones.
C4_Witness ==
    /\ PartialSubmit
    /\ lastDrain.nr > 0
    /\ Len(lastDrain.queue_before) > Len(lastDrain.iocbs)

\* C5: the backend accepts requests in the order in which they were handed
\* to rw_aio (ids are given in that order).
C5_AcceptedInFifoOrder ==
    \A i, j \in 1..Len(accepted) : i < j => accepted[i] < accepted[j]

\* C5 witness: two requests were accepted around one that was failed by a
\* submit error.
C5_Witness ==
    \E a, b, c \in Issued :
        /\ a < b /\ b < c
        /\ InList(accepted, a) /\ InList(accepted, c)
        /\ ~InList(accepted, b) /\ reqRoute[b] = "aligned" /\ results[b] = <<-1>>

\* C6: a direct-I/O request with a misaligned iovec never is in pending, in
\* in-flight or in a batch given to the backend, and is completed exactly
\* once, with 0 if the bounce succeeded and with -1 otherwise; the rw_aio
\* call that takes it leaves pending and in-flight as they were.
C6_BounceState ==
    \A id \in Issued :
        reqClass[id] \in {"mis_ok", "mis_fail"} =>
            /\ ~InList(aio_in_queue, id)
            /\ ~InList(aio_in_flight, id)
            /\ ~InList(lastDrain.iocbs, id)
            /\ ~InList(accepted, id)
            /\ id \notin kernel
            /\ results[id] = <<IF reqClass[id] = "mis_ok" THEN 0 ELSE -1>>

C6_BounceStep ==
    (nextId' = nextId + 1 /\ reqClass'[nextId] \in {"mis_ok", "mis_fail"})
        => /\ aio_in_queue' = aio_in_queue
           /\ aio_in_flight' = aio_in_flight
           /\ kernel' = kernel
           /\ pc' = "idle"

C6_MisalignedNeverQueued == [](C6_BounceState) /\ [][C6_BounceStep]_vars

\* C6 witness: with a request pending or in flight, one misaligned request
\* was completed with 0 and another with -1.
C6_Witness ==
    /\ Len(aio_in_queue) + Len(aio_in_flight) > 0
    /\ \E a, b \in Issued :
        /\ reqClass[a] = "mis_ok" /\ results[a] = <<0>>
        /\ reqClass[b] = "mis_fail" /\ results[b] = <<-1>>

\* ========================================================================
\* Properties of the port handlers (checked under SpecSerialRx, SpecSerialTx)
\* ========================================================================

\* What is left of a sequence after its first n elements.
Drop(s, n) == SubSeq(s, n + 1, Len(s))

\* The used entries that the last run of input_handle added to its receiveq.
NewRxUsed == Drop(rxUsed[lastIo.nr], lastIo.nused)

\* C7: every chain that input delivery pops from a receiveq is marked used
\* with a length equal to the number of buffer bytes copied into that chain
\* (the buffer's first min(capacity, n) bytes); when the first available
\* chain has capacity >= n, the n-byte input takes exactly that one chain,
\* which receives all n bytes and is marked used with length n.
C7_UsedLenIsBytesCopied ==
    lastIo.op = "input" =>
        LET n == Len(lastIo.buf)
            popped == Len(lastIo.avail) - Len(rxAvail[lastIo.nr])
        IN  /\ Len(NewRxUsed) = popped
            /\ rxAvail[lastIo.nr] = Drop(lastIo.avail, popped)
            /\ \A k \in 1..Len(NewRxUsed) :
                /\ NewRxUsed[k].elem = lastIo.avail[k]
                /\ NewRxUsed[k].len = Len(NewRxUsed[k].data)
                /\ NewRxUsed[k].data =
                      SubSeq(lastIo.buf, 1, Min(SumLens(lastIo.avail[k]), n))
            /\ (lastIo.avail # <<>> /\ SumLens(Head(lastIo.avail)) >= n) =>
                  /\ popped = 1
                  /\ NewRxUsed[1].len = n
                  /\ NewRxUsed[1].data = lastIo.buf

\* An input of BUF_SIZE bytes has just been delivered in full to a chain of
\* two descriptors.
C7_Witness ==
    /\ lastIo.op = "input"
    /\ Len(lastIo.buf) = 3
    /\ lastIo.avail # <<>>
    /\ Len(Head(lastIo.avail)) = 2
    /\ Len(NewRxUsed) = 1
    /\ NewRxUsed[1].len = 3

\* C8: when the output handler runs for a port that exists and is
\* host_connected, every available chain is popped and the buffers handed to
\* the chardev are at most BUF_SIZE bytes each; if the chardev has an output
\* and no write fails, the buffers handed over for a chain are, in order,
\* exactly the bytes of its out descriptors, and the chardev stream grows by
\* the bytes of the chains in the order the guest made them available.
C8_ChainsReachChardevInOrder ==
    (lastIo.op = "output" /\ lastIo.fwd) =>
        /\ Len(lastIo.chains) = Len(lastIo.avail)
        /\ \A k \in 1..Len(lastIo.chains) :
              \A j \in 1..Len(lastIo.chains[k]) :
                  Len(lastIo.chains[k][j]) <= BUF_SIZE
        /\ lastIo.env_ok =>
              /\ \A k \in 1..Len(lastIo.chains) :
                    /\ Len(Concat(lastIo.chains[k])) = iovec_size(lastIo.avail[k])
                    /\ Concat(lastIo.chains[k]) = Concat(lastIo.avail[k])
              /\ chardevOut[lastIo.nr] =
                    lastIo.out_before
                      \o Concat([k \in 1..Len(lastIo.avail) |-> Concat(lastIo.avail[k])])

\* A run of the output handler has just forwarded two chains, one of them in
\* more than one chunk, to a chardev that did not fail.
C8_Witness ==
    /\ lastIo.op = "output" /\ lastIo.fwd /\ lastIo.env_ok
    /\ Len(lastIo.avail) = 2
    /\ lastIo.avail[1] # lastIo.avail[2]
    /\ \E k \in 1..2 : Len(lastIo.chains[k]) >= 2
    /\ Len(chardevOut[lastIo.nr]) = 6

\* ========================================================================
\* Properties of the control handler (checked under SpecSerialCtrl)
\* ========================================================================

\* The used entries that the last handled control message added to queue 2.
NewCtrlUsed == Drop(ctrlRxUsed, lastOp.q2_nused)

\* A message that the device wants to send on queue 2.
CtrlMsg(id, event, value, extra) ==
    [hdr |-> [id |-> id, event |-> event, value |-> value], extra |-> extra]

\* The used entry e of queue 2 carries the message m.
Carries(e, m) ==
    /\ e.len = Len(e.data)
    /\ e.len = CtrlSize + Len(m.extra)
    /\ DecodeCtrl(e.data) = m.hdr
    /\ Drop(e.data, CtrlSize) = m.extra

\* The used entries es carry the messages ms, one each, in order.
CarryAll(es, ms) ==
    /\ Len(es) = Len(ms)
    /\ \A k \in 1..Len(ms) : Carries(es[k], ms[k])

\* Of the messages ms sent in turn on a queue 2 with the chains avail, those
\* that are written: the k-th message takes the k-th chain and is written if
\* the chain exists and holds it.
RECURSIVE Written(_, _)
Written(ms, avail) ==
    IF ms = <<>> THEN <<>>
    ELSE IF avail = <<>> THEN <<>>
    ELSE (IF SumLens(Head(avail)) >= CtrlSize + Len(Head(ms).extra)
          THEN <<Head(ms)>> ELSE <<>>)
         \o Written(Tail(ms), Tail(avail))

\* PORT_ADD(nr, 1) for every port, in the order the ports are stored.
PortAddMsgs ==
    [i \in 1..Len(ports) |-> CtrlMsg(ports[i].nr, VIRTIO_CONSOLE_PORT_ADD, 1, <<>>)]

DeviceReadyHandled ==
    lastOp.op = "ctrl_msg" /\ lastOp.req.event = VIRTIO_CONSOLE_DEVICE_READY

\* C9 as stated: after DEVICE_READY with value 1, queue 2 has received exactly
\* one PORT_ADD(nr, 1) per port, in the order the ports are stored; after
\* DEVICE_READY with value 0, nothing.
C9_OnePortAddPerPort ==
    DeviceReadyHandled =>
        /\ lastOp.req.value = 1 => CarryAll(NewCtrlUsed, PortAddMsgs)
        /\ lastOp.req.value = 0 => NewCtrlUsed = <<>>

\* C9, amended: after DEVICE_READY with a non-zero value the device has sent
\* one PORT_ADD(nr, 1) per port in the order the ports are stored, each send
\* taking the next available chain of queue 2; a PORT_ADD is on queue 2 if and
\* only if its send found a chain of at least 8 bytes, so exactly one per port
\* when the guest had posted that many such chains. After DEVICE_READY with
\* value 0 queue 2 is untouched.
C9_PortAddsAsChainsAllow ==
    DeviceReadyHandled =>
        /\ lastOp.req.value # 0 =>
              /\ CarryAll(NewCtrlUsed, Written(PortAddMsgs, lastOp.q2_avail))
              /\ ctrlRxAvail =
                    Drop(lastOp.q2_avail, Min(Len(ports), Len(lastOp.q2_avail)))
              /\ (/\ Len(lastOp.q2_avail) >= Len(ports)
                  /\ \A k \in 1..Len(ports) : SumLens(lastOp.q2_avail[k]) >= CtrlSize)
                 => CarryAll(NewCtrlUsed, PortAddMsgs)
        /\ lastOp.req.value = 0 =>
              /\ NewCtrlUsed = <<>>
              /\ ctrlRxAvail = lastOp.q2_avail

\* DEVICE_READY(1) has just been answered with a PORT_ADD for every port of a
\* device that stores port 1 before port 0.
C9_Witness ==
    /\ DeviceReadyHandled
    /\ lastOp.req.value = 1
    /\ ports[1].nr = 1
    /\ Len(NewCtrlUsed) = Len(ports)

\* The messages that answer PORT_READY for a port, in order.
PortReadyMsgs(port) ==
    (IF port.is_console
     THEN <<CtrlMsg(port.nr, VIRTIO_CONSOLE_CONSOLE_PORT, 1, <<>>)>> ELSE <<>>)
    \o (IF port.name # NoName
        THEN <<CtrlMsg(port.nr, VIRTIO_CONSOLE_PORT_NAME, 1, port.name \o <<0>>)>>
        ELSE <<>>)
    \o (IF port.host_connected
        THEN <<CtrlMsg(port.nr, VIRTIO_CONSOLE_PORT_OPEN, 1, <<>>)>> ELSE <<>>)

PortReadyHandled ==
    /\ lastOp.op = "ctrl_msg"
    /\ lastOp.req.event = VIRTIO_CONSOLE_PORT_READY
    /\ find_port_by_nr(ports, lastOp.req.id) # 0

\* The port that the last handled control message names.
ReadyPort == ports[find_port_by_nr(ports, lastOp.req.id)]

\* C10 as stated: after PORT_READY(id, value # 0) for an existing port, queue
\* 2 has received, in this order and once each, CONSOLE_PORT(id, 1) iff the
\* port is a console, PORT_NAME(id, 1) with the name and a NUL byte iff the
\* port has a name, PORT_OPEN(id, 1) iff the port is host_connected; after
\* PORT_READY with value 0, nothing.
C10_PortReadyAnswer ==
    PortReadyHandled =>
        /\ lastOp.req.value # 0 => CarryAll(NewCtrlUsed, PortReadyMsgs(ReadyPort))
        /\ lastOp.req.value = 0 => NewCtrlUsed = <<>>

\* C10, amended: after PORT_READY(id, value # 0) for an existing port the
\* device has sent, in this order and once each, CONSOLE_PORT(id, 1) iff the
\* port is a console, PORT_NAME(id, 1) with the name and a NUL byte iff the
\* port has a name, PORT_OPEN(id, 1) iff the port is host_connected, each send
\* taking the next available chain of queue 2; a message is on queue 2 if and
\* only if its send found a chain that holds it, so all of them when the
\* guest had posted such a chain for each. After PORT_READY with value 0
\* queue 2 is untouched.
C10_PortReadyAsChainsAllow ==
    PortReadyHandled =>
        LET ms == PortReadyMsgs(ReadyPort)
        IN  /\ lastOp.req.value # 0 =>
                  /\ CarryAll(NewCtrlUsed, Written(ms, lastOp.q2_avail))
                  /\ ctrlRxAvail =
                        Drop(lastOp.q2_avail, Min(Len(ms), Len(lastOp.q2_avail)))
                  /\ (/\ Len(lastOp.q2_avail) >= Len(ms)
                      /\ \A k \in 1..Len(ms) :
                            SumLens(lastOp.q2_avail[k]) >= CtrlSize + Len(ms[k].extra))
                     => CarryAll(NewCtrlUsed, ms)
            /\ lastOp.req.value = 0 =>
                  /\ NewCtrlUsed = <<>>
                  /\ ctrlRxAvail = lastOp.q2_avail

\* PORT_READY(0, 1) for the console has just been answered with CONSOLE_PORT,
\* PORT_NAME and PORT_OPEN.
C10_Witness ==
    /\ PortReadyHandled
    /\ lastOp.req.value # 0
    /\ ReadyPort.is_console
    /\ Len(NewCtrlUsed) = 3
    /\ DecodeCtrl(NewCtrlUsed[2].data).event = VIRTIO_CONSOLE_PORT_NAME

\* The control handler is about to handle the well-formed message at the head
\* of queue 3, and this step handles it.
HandlesHead ==
    /\ spc = "ctrl"
    /\ ctrlTxAvail # <<>>
    /\ Len(Head(ctrlTxAvail)) >= CtrlSize
    /\ ctrlTxAvail' = Tail(ctrlTxAvail)

\* The request at the head of queue 3.
HeadReq == DecodeCtrl(Head(ctrlTxAvail))

\* C11: handling PORT_OPEN(id, value) for an existing port sets that port's
\* guest_connected to (value # 0) and leaves every other field of every port,
\* queue 2 and the broken flag as they were.
C11_PortOpenStep ==
    (/\ HandlesHead
     /\ HeadReq.event = VIRTIO_CONSOLE_PORT_OPEN
     /\ find_port_by_nr(ports, HeadReq.id) # 0)
    => /\ ports' = [ports EXCEPT
                      ![find_port_by_nr(ports, HeadReq.id)].guest_connected =
                          (HeadReq.value # 0)]
       /\ ctrlRxAvail' = ctrlRxAvail
       /\ ctrlRxUsed' = ctrlRxUsed
       /\ device_broken' = device_broken
       /\ lastOp'.irqs = 0

C11_PortOpenSetsGuestConnected == [][C11_PortOpenStep]_vars

\* PORT_OPEN(1, 1) has just been handled with a chain waiting on queue 2: port
\* 1 is guest_connected, port 0 is not.
C11_Witness ==
    /\ lastOp.op = "ctrl_msg"
    /\ lastOp.req.event = VIRTIO_CONSOLE_PORT_OPEN
    /\ lastOp.req.id = 1
    /\ lastOp.req.value = 1
    /\ lastOp.q2_avail # <<>>
    /\ \A i \in 1..Len(ports) : ports[i].guest_connected = (ports[i].nr = 1)

\* This step is a chardev status notification to a port.
NotifyStep == lastOp'.op \in {"chardev_notify", "chardev_notify_panic"}

\* C12: a chardev notification to a port leaves host_connected equal to the
\* kind of the notification (Open: TRUE, Close: FALSE) and changes no other
\* field of any port; Open on a host_connected port leaves queue 2 alone;
\* Close, and Open on a port that was not host_connected, send PORT_OPEN(nr, 0)
\* resp. PORT_OPEN(nr, 1) into the next chain of queue 2 when the port has a
\* reference to the control handler, and the notification completes.
C12_NotifyFollowsChardev ==
    NotifyStep =>
        LET i == find_port_by_nr(ports, lastOp'.nr)
            open == lastOp'.req.value = 1
            msg == CtrlMsg(lastOp'.nr, VIRTIO_CONSOLE_PORT_OPEN,
                           lastOp'.req.value, <<>>)
        IN  /\ ports' = [ports EXCEPT ![i].host_connected = open]
            /\ ~panicked'
            /\ IF open /\ ports[i].host_connected
               THEN /\ ctrlRxAvail' = ctrlRxAvail
                    /\ ctrlRxUsed' = ctrlRxUsed
               ELSE ports[i].ctrl_handler # "none" =>
                        /\ CarryAll(Drop(ctrlRxUsed', Len(ctrlRxUsed)),
                                    Written(<<msg>>, ctrlRxAvail))
                        /\ ctrlRxAvail' =
                              Drop(ctrlRxAvail, Min(1, Len(ctrlRxAvail)))

C12_HostConnectedFollowsChardev == [][C12_NotifyFollowsChardev]_vars

\* A Close notification has reached a port after deactivate, with a chain
\* waiting on queue 2: the port's reference to the control handler is dead.
C12_Witness ==
    /\ lastOp.op = "chardev_notify_panic"
    /\ lastOp.req.value = 0
    /\ lastOp.q2_avail # <<>>
    /\ panicked

\* ========================================================================
\* Properties of feature negotiation (checked under SpecSerialFeat) and of
\* the configuration space (checked under SpecSerialRead)
\* ========================================================================

\* C13: after set_driver_features(page, requested), the written page of
\* driver_features is exactly the offered page AND the requested value.
C13_DriverFeaturesAreOfferedAndRequested ==
    lastCfg.op = "set_driver_features" =>
        features_page(driver_features, lastCfg.page) =
            features_page(device_features, lastCfg.page) \cap lastCfg.value

\* The driver has asked for an offered and a not offered bit on page 0 of a
\* device that offers features: only the offered one is acknowledged.
C13_Witness ==
    /\ lastCfg.op = "set_driver_features"
    /\ lastCfg.page = 0
    /\ lastCfg.value = {VIRTIO_CONSOLE_F_MULTIPORT, 2}
    /\ device_features = OfferedFeatures
    /\ driver_features = {VIRTIO_CONSOLE_F_MULTIPORT}

\* C14: every bit of driver_features is a bit of device_features; with
\* device_features = 0 driver_features is 0; with F_VERSION_1 | F_SIZE offered
\* a request of F_MULTIPORT on page 0 leaves page 0 empty; and writing one
\* page keeps the bits of the other page.
C14_DriverFeaturesWithinOffered ==
    /\ driver_features \subseteq device_features
    /\ device_features = {} => driver_features = {}
    /\ lastCfg.op = "set_driver_features" =>
          /\ features_page(driver_features, 1 - lastCfg.page) =
                features_page(lastCfg.before, 1 - lastCfg.page)
          /\ (/\ device_features = {VIRTIO_F_VERSION_1, VIRTIO_CONSOLE_F_SIZE}
              /\ lastCfg.page = 0
              /\ lastCfg.value = {VIRTIO_CONSOLE_F_MULTIPORT}
              /\ lastCfg.before = {})
             => driver_features = {}

\* F_VERSION_1 has just been acknowledged on page 1 while F_MULTIPORT,
\* acknowledged before on page 0, is still set.
C14_Witness ==
    /\ lastCfg.op = "set_driver_features"
    /\ lastCfg.page = 1
    /\ lastCfg.before = {VIRTIO_CONSOLE_F_MULTIPORT}
    /\ driver_features = {VIRTIO_F_VERSION_1, VIRTIO_CONSOLE_F_MULTIPORT}

\* C15: read_config(offset, len) succeeds with bytes [offset, offset + len) of
\* the little-endian 12-byte configuration {0, 0, max_nr_ports, 0} when
\* offset + len <= 12 and fails when offset + len > 12; 8 bytes at offset 12
\* fail, 12 bytes at offset 0 of a 31-port device are 0,0,0,0,31,0,...,0.
C15_ReadConfigSlice ==
    lastCfg.op = "read_config" =>
        LET n == lastCfg.page
            whole == <<0, 0, 0, 0, n % 256, (n \div 256) % 256, 0, 0, 0, 0, 0, 0>>
        IN  /\ lastCfg.ok = (lastCfg.offset + lastCfg.len <= 12)
            /\ lastCfg.ok =>
                  /\ Len(lastCfg.data) = lastCfg.len
                  /\ \A k \in 1..lastCfg.len :
                        lastCfg.data[k] = whole[lastCfg.offset + k]
            /\ (lastCfg.offset = 12 /\ lastCfg.len = 8) => ~lastCfg.ok
            /\ (n = 31 /\ lastCfg.offset = 0 /\ lastCfg.len = 12) =>
                  lastCfg.data = <<0, 0, 0, 0, 31, 0, 0, 0, 0, 0, 0, 0>>

\* The last four bytes of max_nr_ports and emerg_wr of the 31-port device
\* have just been read from offset 4.
C15_Witness ==
    /\ lastCfg.op = "read_config"
    /\ lastCfg.page = 31
    /\ lastCfg.offset = 4
    /\ lastCfg.len = 8
    /\ lastCfg.ok
    /\ lastCfg.data = <<31, 0, 0, 0, 0, 0, 0, 0>>

\* The control handler is about to pop the message at the head of queue 3,
\* which is shorter than the header, and this step pops it.
HandlesShortHead ==
    /\ spc = "ctrl"
    /\ ctrlTxAvail # <<>>
    /\ Len(Head(ctrlTxAvail)) < CtrlSize
    /\ ctrlTxAvail' = Tail(ctrlTxAvail)

\* C16: a control message shorter than the 8-byte header is marked used with
\* length 0, does not change the broken flag, and the handler goes on with
\* the messages that follow it.
C16_ShortMessageStep ==
    HandlesShortHead =>
        /\ ctrlTxUsed' = Append(ctrlTxUsed, 0)
        /\ device_broken' = device_broken
        /\ spc' = "ctrl"

C16_ShortMessageRejectedHarmlessly == [][C16_ShortMessageStep]_vars

\* A short control message has just been popped: it is not in the used ring,
\* the device is broken and the message behind it is still on queue 3.
C16_Witness ==
    /\ lastOp.op = "ctrl_short"
    /\ device_broken
    /\ ctrlTxUsed = <<>>
    /\ ctrlTxAvail # <<>>
    /\ spc = "idle"

\* The events that the control handler acts on.
HandledEvents ==
    {VIRTIO_CONSOLE_DEVICE_READY, VIRTIO_CONSOLE_PORT_READY, VIRTIO_CONSOLE_PORT_OPEN}

\* C17: a well-formed control message with an event other than DEVICE_READY,
\* PORT_READY, PORT_OPEN, or (for an event other than DEVICE_READY) with an id
\* that names no port, changes no port, leaves queue 2 and the broken flag as
\* they were, raises no interrupt for queue 2 and is marked used with length 0.
C17_IgnoredMessageStep ==
    (/\ HandlesHead
     /\ \/ HeadReq.event \notin HandledEvents
        \/ /\ HeadReq.event # VIRTIO_CONSOLE_DEVICE_READY
           /\ \A k \in 1..Len(ports) : ports[k].nr # HeadReq.id)
    => /\ ports' = ports
       /\ ctrlRxAvail' = ctrlRxAvail
       /\ ctrlRxUsed' = ctrlRxUsed
       /\ device_broken' = device_broken
       /\ lastOp'.irqs = 0
       /\ ctrlTxUsed' = Append(ctrlTxUsed, 0)

C17_UnknownMessagesIgnored == [][C17_IgnoredMessageStep]_vars

\* PORT_READY(2, 1), for a port that does not exist, has just been handled
\* with chains waiting on queue 2.
C17_Witness ==
    /\ lastOp.op = "ctrl_msg"
    /\ lastOp.req.event = VIRTIO_CONSOLE_PORT_READY
    /\ lastOp.req.id = 2
    /\ lastOp.req.value = 1
    /\ lastOp.q2_avail # <<>>
    /\ ctrlRxAvail = lastOp.q2_avail
    /\ ctrlTxUsed # <<>>

\* C18: a handler that is entered while the device is broken pops no chain
\* from a control queue and adds nothing to a used ring.
C18_BrokenEntryStep ==
    (device_broken /\ spc = "idle" /\ lastOp'.op # "none")
    => /\ ctrlRxAvail' = ctrlRxAvail
       /\ ctrlRxUsed' = ctrlRxUsed
       /\ ctrlTxAvail' = ctrlTxAvail
       /\ ctrlTxUsed' = ctrlTxUsed

C18_BrokenDeviceDoesNoWork == [][C18_BrokenEntryStep]_vars

\* A chardev notification has just put PORT_OPEN on queue 2 of a device that
\* was broken before (a send that succeeds does not set the flag).
C18_Witness ==
    /\ lastOp.op = "chardev_notify"
    /\ device_broken
    /\ Len(ctrlRxUsed) = lastOp.q2_nused + 1

\* C19: activate fails, registering no handler and leaving every port
\* un-activated, whenever the number of queues differs from
\* 2 * max_nr_ports + 2, and proceeds only when the number is exactly that.
C19_ActivateChecksQueueNumber ==
    /\ lastOp.op = "activate_err" =>
        /\ lastOp.nqueues # 2 * MaxPorts + 2
        /\ ~active
        /\ handlers = {}
        /\ \A i \in 1..Len(ports) :
            ports[i].ctrl_handler # "live" /\ ports[i].deactivated
    /\ lastOp.op = "activate" =>
        /\ lastOp.nqueues = 2 * MaxPorts + 2
        /\ active
        /\ handlers # {}

\* An activation with two queues too many has failed.
C19_Witness ==
    /\ lastOp.op = "activate_err"
    /\ lastOp.nqueues = 2 * MaxPorts + 4
    /\ ~active

\* The handlers that serve queue pair k.
PairHandlers(k) ==
    { h \in handlers : h.input_queue = 2 * k /\ h.output_queue = 2 * k + 1 }

\* C20: on an activated device queue pair k is served by the data handler of
\* port 0 (k = 0), by the control handler (k = 1) or by the data handler of
\* port k - 1 (k >= 2); every port number has exactly one data handler, every
\* queue exactly one handler, and every port refers to the control handler.
C20_QueuePairsServeTheirPorts ==
    active =>
        /\ \A k \in 0..MaxPorts :
            \E h \in handlers :
                /\ PairHandlers(k) = {h}
                /\ IF k = 1
                   THEN h.kind = "control"
                   ELSE /\ h.kind = "data"
                        /\ h.nr = (IF k = 0 THEN 0 ELSE k - 1)
                        /\ \A i \in 1..Len(ports) :
                            ports[i].nr = h.nr => h.port = i
        /\ \A nr \in 0..(MaxPorts - 1) :
            Cardinality({ h \in handlers : h.kind = "data" /\ h.nr = nr }) = 1
        /\ \A q \in 0..(2 * MaxPorts + 1) :
            Cardinality({ h \in handlers :
                            q \in {h.input_queue, h.output_queue} }) = 1
        /\ \A i \in 1..Len(ports) : ports[i].ctrl_handler = "live"

\* The device is activated with port 1 stored first: queues 4 and 5 serve it.
C20_Witness ==
    /\ active
    /\ ports[1].nr = 1
    /\ \E h \in handlers :
        h.kind = "data" /\ h.input_queue = 4 /\ h.output_queue = 5 /\ h.port = 1

\* C21: after deactivate every port has guest_connected = FALSE and its
\* chardev deactivated, no handler is registered and host_connected is as it
\* was; a device that is not active has no port the guest is connected to, so
\* input_handle delivers nothing until a new PORT_OPEN.
C21_DeactivateResetsPorts ==
    /\ lastOp.op = "deactivate" =>
        /\ ~active
        /\ handlers = {}
        /\ Len(ports) = Len(lastOp.before)
        /\ \A i \in 1..Len(ports) :
            /\ ~ports[i].guest_connected
            /\ ports[i].deactivated
            /\ ports[i].host_connected = lastOp.before[i].host_connected
    /\ ~active => \A i \in 1..Len(ports) :
                    ~ports[i].guest_connected /\ ports[i].deactivated

\* The device is deactivated after the guest had opened a port and the
\* chardev of the console had been closed.
C21_Witness ==
    /\ lastOp.op = "deactivate"
    /\ \E i \in 1..Len(ports) : lastOp.before[i].guest_connected
    /\ \E i \in 1..Len(ports) :
        lastOp.before[i].is_console /\ ~lastOp.before[i].host_connected

\* ========================================================================
\* Further properties of the AIO engine (checked under SpecAio)
\* ========================================================================

\* C22: no engine call returns an error: a failed event or a failed submit
\* only completes the affected request with -1, handle unlinks the node of
\* every event it got from get_events, and process_list goes on after it has
\* failed a request.
C22_EngineNeverFails ==
    /\ lastCall.ret # "Err"
    /\ lastCall.dropped = 0
    /\ lastDrain.cb_ok

\* handle has returned an error at the first of two events, a failed one:
\* its request was completed with -1 and is still in in-flight, and the
\* event of the other request was dropped.
C22_Witness ==
    /\ lastCall.op = "handle"
    /\ lastCall.ret = "Err"
    /\ lastCall.dropped = 2
    /\ \E a, b \in Issued :
        /\ a # b
        /\ results[a] = <<-1>> /\ InList(aio_in_flight, a) /\ a \notin kernel
        /\ results[b] = <<>> /\ InList(aio_in_flight, b) /\ b \notin kernel

\* The number of elements of s that are x.
Count(s, x) == Cardinality({ i \in 1..Len(s) : s[i] = x })

\* C23: the bounce operation frees the buffer it allocated exactly once on
\* every exit path: when it returns, as many buffers were freed as were
\* allocated (at most one), and no free comes without an allocation before it.
C23_BounceBufferFreedOnce ==
    lastCall.op = "bounce" =>
        /\ Count(lastCall.heap, "memalign") <= 1
        /\ Count(lastCall.heap, "free") = Count(lastCall.heap, "memalign")
        /\ \A i \in 1..Len(lastCall.heap) :
            Count(SubSeq(lastCall.heap, 1, i), "free")
                <= Count(SubSeq(lastCall.heap, 1, i), "memalign")

\* A misaligned request has failed after its buffer was allocated: the
\* buffer was freed and the request completed with -1.
C23_Witness ==
    /\ lastCall.op = "bounce"
    /\ lastCall.heap = <<"memalign", "free">>
    /\ results[nextId - 1] = <<-1>>

\* ========================================================================
\* Properties of the locking (checked under SpecSerialLocks)
\* ========================================================================

\* The place of a mutex in the order ports vector, port, chardev; 0 for the
\* other mutexes.
LockRank(l) ==
    CASE l[1] = "ports" -> 1
      [] l[1] = "port" -> 2
      [] l[1] = "chardev" -> 3
      [] OTHER -> 0

\* The mutexes thread t holds.
Held(t) == { l \in Mutexes : lockOwner[l] = t }

\* Thread t is at a lock() on a mutex that thread u holds.
WaitsFor(t, u) ==
    /\ NextLockStep(t)[1] = "acq"
    /\ lockOwner[NextLockStep(t)[2]] = u

\* No thread locks the vector, a port or a chardev while it holds a mutex
\* that comes later in the order, or another mutex of the same kind.
LockOrderKept ==
    \A t \in Threads :
        (NextLockStep(t)[1] = "acq" /\ LockRank(NextLockStep(t)[2]) > 0) =>
            \A l \in Held(t) :
                LockRank(l) > 0 => LockRank(l) < LockRank(NextLockStep(t)[2])

\* C24: the operations take the vector, a port and a chardev in that order
\* only, and no two threads are ever each at a lock() on a mutex the other
\* holds.
C24_NoDeadlock ==
    /\ LockOrderKept
    /\ \A t, u \in Threads : ~(t # u /\ WaitsFor(t, u) /\ WaitsFor(u, t))

\* chardev_notify holds a port and is at the lock() of the control handler,
\* which output_control holds while it is at the lock() of that port.
C24_Witness ==
    \E t, u \in Threads :
        /\ t # u
        /\ thr[t].op = "chardev_notify" /\ thr[u].op = "output_control"
        /\ WaitsFor(t, u) /\ WaitsFor(u, t)
        /\ NextLockStep(t)[2] = <<"ctrl_handler", 0>>
        /\ NextLockStep(u)[2][1] = "port"
        /\ LockOrderKept

\* ========================================================================
\* Further properties of the port handlers (checked under SpecSerialRx)
\* ========================================================================

\* The bytes the last run of input_handle wrote, chain after chain.
DeliveredBytes == Concat([i \in 1..Len(NewRxUsed) |-> NewRxUsed[i].data])

\* C25: the chains of one delivery receive consecutive segments of the input
\* buffer in order, so that the bytes written are a prefix of the buffer, the
\* used lengths sum up to at most the buffer length, and the delivery has
\* stopped because the buffer was exhausted or no chain was left.
C25_ChainsGetConsecutiveSegments ==
    lastIo.op = "input" =>
        /\ Len(DeliveredBytes) <= Len(lastIo.buf)
        /\ DeliveredBytes = SubSeq(lastIo.buf, 1, Len(DeliveredBytes))
        /\ SumLens([i \in 1..Len(NewRxUsed) |-> NewRxUsed[i].len]) <= Len(lastIo.buf)
        /\ \/ DeliveredBytes = lastIo.buf
           \/ rxAvail[lastIo.nr] = <<>>

\* A buffer of three bytes was delivered to a chain of one byte followed by
\* a chain of two: the second chain got the first two bytes of the buffer
\* again, and the third byte reached no chain.
C25_Witness ==
    /\ lastIo.op = "input"
    /\ lastIo.buf = <<7, 8, 9>>
    /\ Len(NewRxUsed) = 2
    /\ NewRxUsed[1].data = <<7>>
    /\ NewRxUsed[2].data = <<7, 8>>
    /\ rxAvail[lastIo.nr] = <<>>

\* ========================================================================
\* Properties of the drain (checked under SpecAio)
\* ========================================================================

\* The step is an rw_aio call that takes the aligned path.
QueuedByRwAio == nextId' = nextId + 1 /\ reqRoute'[nextId] = "aligned"

\* C26: rw_aio on the aligned path adds the request to pending and submits
\* nothing itself; it enters the drain if and only if the request has
\* last_aio or pending and in-flight together have reached max_events; a
\* request leaves pending only in a drain.
C26_RwAioStep ==
    /\ QueuedByRwAio =>
        /\ aio_in_queue' = <<nextId>> \o aio_in_queue
        /\ aio_in_flight' = aio_in_flight
        /\ kernel' = kernel /\ accepted' = accepted
        /\ results' = results
        /\ (pc' = "drain") <=>
              \/ lastCall'.last_aio
              \/ Len(aio_in_queue') + Len(aio_in_flight') >= MaxEvents
    /\ (\E id \in Issued : InList(aio_in_queue, id) /\ ~InList(aio_in_queue', id))
          => pc = "drain"

C26_DrainTriggeredByLastOrFull == [][C26_RwAioStep]_vars

\* rw_aio has queued a request without last_aio and has entered the drain,
\* because pending and in-flight together hold max_events requests.
C26_Witness ==
    /\ lastCall.op = "rw_aio" /\ ~lastCall.last_aio
    /\ pc = "drain"
    /\ Len(aio_in_queue) = 1
    /\ Len(aio_in_flight) = MaxEvents - 1

\* A process_list iteration has just run in which submit returned an error.
SubmitFailed == lastDrain.iocbs # <<>> /\ lastDrain.is_err

\* C27: after a failed submit the batch is back in pending in its old order
\* except for the oldest pending request, which was completed with -1;
\* in-flight is what it was before the attempt and holds accepted requests
\* only; the drain goes on with the remaining requests (unless the
\* completion callback returned an error, which ends the engine call).
C27_StateAfterFailedSubmit ==
    SubmitFailed =>
        /\ aio_in_queue = SubSeq(lastDrain.queue_before, 1,
                                 Len(lastDrain.queue_before) - 1)
        /\ lastDrain.iocbs[1] = lastDrain.queue_before[Len(lastDrain.queue_before)]
        /\ results[lastDrain.iocbs[1]] = <<-1>>
        /\ \A i \in 2..Len(lastDrain.iocbs) : results[lastDrain.iocbs[i]] = <<>>
        /\ aio_in_flight = lastDrain.flight_before
        /\ \A id \in Range(aio_in_flight) : InList(accepted, id)
        /\ \A id \in Range(lastDrain.iocbs) : ~InList(accepted, id) /\ id \notin kernel
        /\ pc = "drain" \/ ~lastDrain.cb_ok

C27_RetryStep ==
    (SubmitFailed /\ lastDrain'.iocbs # <<>>)
        => /\ Len(lastDrain.queue_before) >= 2
           /\ Head(lastDrain'.iocbs) =
                 lastDrain.queue_before[Len(lastDrain.queue_before) - 1]

C28_IterationStep ==
    /\ lastDrain'.iocbs # <<>> =>
        \/ /\ ~lastDrain'.is_err /\ lastDrain'.nr > 0
           /\ Len(aio_in_flight') = Len(aio_in_flight) + lastDrain'.nr
           /\ Len(aio_in_queue') = Len(aio_in_queue) - lastDrain'.nr
           /\ results' = results
           /\ pc' = "drain"
        \/ /\ lastDrain'.is_err
           /\ Len(aio_in_queue') = Len(aio_in_queue) - 1
           /\ aio_in_flight' = aio_in_flight
           /\ \E id \in Issued : results' = [results EXCEPT ![id] = Append(@, -1)]
        \/ /\ ~lastDrain'.is_err /\ lastDrain'.nr = 0
           /\ pc' = "idle"
           /\ aio_in_queue' = aio_in_queue
           /\ aio_in_flight' = aio_in_flight
           /\ results' = results /\ kernel' = kernel
    /\ (lastCall'.op = "handle" /\ lastCall'.ret # "Err") => pc' = "drain"

LastRawReturn ==
    IF lastCall.ios = <<>> THEN 0
    ELSE IF lastCall.raw[Len(lastCall.ios)].ok
    THEN lastCall.raw[Len(lastCall.ios)].n ELSE -1

\* C29, the call: rw_sync calls the completion callback once; for Preadv and
\* Pwritev it makes one raw call per iovec in list order, the i-th at offset
\* plus the lengths of the iovecs before it, up to and including the first
\* that fails, and passes the return of the last raw call (0 for no iovec);
\* for another opcode it makes no raw call and passes -1.
C29_SyncCall ==
    lastCall.op = "rw_sync" =>
        LET cb == lastCall.cb
            ios == lastCall.ios
        IN  /\ Len(results[nextId - 1]) = 1
            /\ IF cb.opcode \in {"Preadv", "Pwritev"}
               THEN /\ Len(ios) <= Len(cb.iovec)
                    /\ \A i \in 1..Len(ios) :
                        /\ ios[i].kind = (IF cb.opcode = "Preadv"
                                          THEN "raw_read" ELSE "raw_write")
                        /\ ios[i].base = cb.iovec[i].iov_base
                        /\ ios[i].len = cb.iovec[i].iov_len
                        /\ ios[i].off = cb.offset + SumLens(SubSeq(IovLens(cb.iovec),
                                                                  1, i - 1))
                        /\ i < Len(ios) => lastCall.raw[i].ok
                    /\ Len(ios) < Len(cb.iovec) => ~lastCall.raw[Len(ios)].ok
                    /\ results[nextId - 1] = <<LastRawReturn>>
               ELSE /\ ios = <<>>
                    /\ results[nextId - 1] = <<-1>>

\* C29, the lists: rw_sync leaves pending, in-flight and the backend alone.
C29_SyncStep ==
    lastCall'.op = "rw_sync" =>
        /\ aio_in_queue' = aio_in_queue
        /\ aio_in_flight' = aio_in_flight
        /\ kernel' = kernel
        /\ pc' = pc

C29_RwSyncRunsIovecsInOrder == [](C29_SyncCall) /\ [][C29_SyncStep]_vars

\* With a request pending, a synchronous write of two iovecs has failed at
\* the second, which it wrote behind the first: the callback got -1.
C29_Witness ==
    /\ lastCall.op = "rw_sync"
    /\ lastCall.cb.opcode = "Pwritev"
    /\ lastCall.cb.offset = 5
    /\ Len(lastCall.ios) = 2
    /\ lastCall.ios[2].off = 7
    /\ lastCall.raw[1].ok /\ ~lastCall.raw[2].ok
    /\ results[nextId - 1] = <<-1>>
    /\ aio_in_queue # <<>>

\* ========================================================================
\* Properties of the copy helpers (checked under SpecIov)
\* ========================================================================

\* The number of bytes of the buffer that lie before the i-th iovec.
IovStart(iovec, i) == SumLens(SubSeq(IovLens(iovec), 1, i - 1))

\* min(sum of the iovec lengths, buffer length).
IovTotal(iovec, buf) == Min(SumLens(IovLens(iovec)), Len(buf))

\* The positions of the buffer that belong to the i-th iovec.
IovShare(iovec, buf, i) ==
    { k \in 1..Len(buf) :
        k > IovStart(iovec, i) /\ k <= IovStart(iovec, i) + iovec[i].iov_len }

\* The address that position k of the buffer has in the i-th iovec.
IovAddr(iovec, i, k) == iovec[i].iov_base + (k - IovStart(iovec, i) - 1)

\* Memory after the shares of iovecs i.. were written to it in list order.
RECURSIVE Scattered(_, _, _, _)
Scattered(m, iovec, buf, i) ==
    IF i > Len(iovec) THEN m
    ELSE Scattered([a \in DOMAIN m |->
                       IF \E k \in IovShare(iovec, buf, i) : IovAddr(iovec, i, k) = a
                       THEN buf[CHOOSE k \in IovShare(iovec, buf, i) :
                                    IovAddr(iovec, i, k) = a]
                       ELSE m[a]],
                   iovec, buf, i + 1)

\* iov_from_buf_direct returns min(sum of lengths, buffer length); the
\* memory afterwards is the memory before with each iovec's share of the
\* buffer written at its base, in list order, nothing else changed.
C30_FromBufStep ==
    iovCall'.op = "iov_from_buf_direct" =>
        /\ iovCall'.ret = IovTotal(iovCall'.iovec, iovCall'.buf)
        /\ mem' = Scattered(mem, iovCall'.iovec, iovCall'.buf, 1)

\* iov_to_buf_direct returns the same count, fills that prefix of the
\* buffer with each iovec's bytes in list order and leaves the rest of the
\* buffer and the memory alone.
C30_ToBufState ==
    iovCall.op = "iov_to_buf_direct" =>
        /\ iovCall.ret = IovTotal(iovCall.iovec, iovCall.buf)
        /\ \A i \in 1..Len(iovCall.iovec) :
            \A k \in IovShare(iovCall.iovec, iovCall.buf, i) :
                iovCall.buf[k] = mem[IovAddr(iovCall.iovec, i, k)]
        /\ \A k \in 1..Len(iovCall.buf) : k > iovCall.ret => iovCall.buf[k] = 3

C30_ToBufStep == iovCall'.op = "iov_to_buf_direct" => mem' = mem

\* The bytes that iov_to_buf_direct gathered are the bytes that
\* iov_from_buf_direct scattered.
RoundTrip ==
    SubSeq(iovCall.buf, 1, iovCall.ret) = SubSeq(iovCall.sent[1], 1, iovCall.ret)

\* No address belongs to the shares of two iovecs.
SharesApart(iovec, buf) ==
    \A i, j \in 1..Len(iovec) :
        i # j =>
            \A k \in IovShare(iovec, buf, i), l \in IovShare(iovec, buf, j) :
                IovAddr(iovec, i, k) # IovAddr(iovec, j, l)

\* C30 as stated: the two helpers copy min(sum of lengths, buffer length)
\* bytes in list order, and gathering the same iovecs into a buffer of the
\* same size yields the scattered prefix back.
C30_ScatterGatherRoundTrip ==
    /\ [](C30_ToBufState)
    /\ [][C30_FromBufStep /\ C30_ToBufStep]_vars
    /\ [](iovCall.op = "iov_to_buf_direct" /\ iovCall.sent # <<>> => RoundTrip)

\* C30, amended: the two helpers copy min(sum of lengths, buffer length)
\* bytes in list order, and gathering the same iovecs into a buffer of the
\* same size yields the scattered prefix back when the parts of the iovecs
\* that the prefix fills do not overlap.
C30_RoundTripOfIovecsApart ==
    /\ [](C30_ToBufState)
    /\ [][C30_FromBufStep /\ C30_ToBufStep]_vars
    /\ [](/\ iovCall.op = "iov_to_buf_direct"
          /\ iovCall.sent # <<>>
          /\ SharesApart(iovCall.iovec, iovCall.buf)
          => RoundTrip)

\* Three bytes were scattered over two iovecs that lie apart, the second
\* before the first in memory, and gathered back.
C30_Witness ==
    /\ iovCall.op = "iov_to_buf_direct"
    /\ iovCall.iovec = <<Iovec(2, 1), Iovec(0, 2)>>
    /\ iovCall.sent = << <<1, 2, 1>> >>
    /\ iovCall.ret = 3
    /\ iovCall.buf = <<1, 2, 1>>
    /\ mem = [a \in 0..(MemSize - 1) |-> IF a = 3 THEN 0 ELSE IF a = 0 THEN 2 ELSE 1]

\* ========================================================================
\* Further properties of the transmit path (checked under SpecSerialTx)
\* ========================================================================

\* C31: a run of the output handler empties the transmitq and gives every
\* chain it popped a used entry of length 0, in the order of the chains and
\* behind the entries that were there, forwarded or not, and raises at most
\* one interrupt; when the queue has no port or the port is not
\* host_connected, no chardev receives anything and the device is not
\* marked broken.
C31_OutputStep ==
    lastIo'.op = "output" =>
        LET nr == lastIo'.nr
            n == Len(txUsed[nr])
        IN  /\ txAvail'[nr] = <<>>
            /\ Len(txUsed'[nr]) = n + Len(txAvail[nr])
            /\ SubSeq(txUsed'[nr], 1, n) = txUsed[nr]
            /\ \A k \in 1..Len(txAvail[nr]) :
                  txUsed'[nr][n + k] = [elem |-> txAvail[nr][k], len |-> 0]
            /\ lastIo'.irqs <= 1
            /\ ~lastIo'.fwd =>
                  /\ chardevOut' = chardevOut
                  /\ \A k \in 1..Len(lastIo'.chains) : lastIo'.chains[k] = <<>>
                  /\ ~device_broken'

C31_EveryPoppedChainIsUsedWithLengthZero == [][C31_OutputStep]_vars

\* A run of the output handler has just taken two chains with bytes from the
\* transmitq of a port that is not host_connected, behind an entry of an
\* earlier run: three used entries, nothing on the chardev.
C31_Witness ==
    /\ lastIo.op = "output" /\ ~lastIo.fwd
    /\ find_port_by_nr(ports, lastIo.nr) # 0
    /\ Len(lastIo.avail) = 2
    /\ \A k \in 1..2 : iovec_size(lastIo.avail[k]) > 0
    /\ lastIo.nused = 1
    /\ Len(txUsed[lastIo.nr]) = 3
    /\ chardevOut[lastIo.nr] = <<>>
    /\ txAvail[lastIo.nr] = <<>>

\* ========================================================================
\* Further properties of the receive path (checked under SpecSerialRx)
\* ========================================================================

\* C32: chardev input that is empty, or that arrives for a port whose
\* guest_connected is false, takes no chain from the receiveq, adds nothing
\* to the used ring, raises no interrupt and leaves the device-broken flag
\* alone.  (A step that records a new run of the input handler is a run of
\* it; the port's flag is read before the step.)
C32_DroppedInputStep ==
    (/\ lastIo' # lastIo
     /\ lastIo'.op \in {"input", "input_skip"}
     /\ \/ lastIo'.buf = <<>>
        \/ ~ports[find_port_by_nr(ports, lastIo'.nr)].guest_connected) =>
        /\ rxAvail' = rxAvail
        /\ rxUsed' = rxUsed
        /\ lastIo'.irqs = 0
        /\ device_broken' = device_broken
        /\ ports' = ports

SendingStep == lastOp'.op \in {"ctrl_msg", "chardev_notify"}

\* The number of messages that a sending step has to send at most.
MaxSent ==
    CASE lastOp'.op = "chardev_notify" -> 1
      [] lastOp'.req.event = VIRTIO_CONSOLE_DEVICE_READY -> Len(ports)
      [] lastOp'.req.event = VIRTIO_CONSOLE_PORT_READY -> 3
      [] OTHER -> 0

\* C33: an operation that sends control messages while queue 2 has no
\* available chain adds nothing to the used ring, raises no interrupt and
\* does not mark the device broken; the used ring grows only in a sending
\* step, by chains that were available before it and by no more entries
\* than the step has messages, so a dropped message is not delivered when
\* the guest posts chains later.
C33_SendStep ==
    /\ (SendingStep /\ ctrlRxAvail = <<>>) =>
          /\ ctrlRxUsed' = ctrlRxUsed
          /\ ctrlRxAvail' = <<>>
          /\ lastOp'.irqs = 0
          /\ device_broken' = device_broken
    /\ ctrlRxUsed' # ctrlRxUsed =>
          /\ SendingStep
          /\ SubSeq(ctrlRxUsed', 1, Len(ctrlRxUsed)) = ctrlRxUsed
          /\ Len(ctrlRxUsed') - Len(ctrlRxUsed) <= Len(ctrlRxAvail) - Len(ctrlRxAvail')
          /\ Len(ctrlRxUsed') - Len(ctrlRxUsed) <= MaxSent

C33_MessageWithoutChainIsDropped == [][C33_SendStep]_vars

\* The chardev of a port of the active device has just closed while queue 2
\* had no available chain: PORT_OPEN(nr, 0) was sent and dropped.
C33_Witness ==
    /\ lastOp.op = "chardev_notify"
    /\ lastOp.req.value = 0
    /\ lastOp.q2_avail = <<>>
    /\ active
    /\ ports[find_port_by_nr(ports, lastOp.nr)].ctrl_handler = "live"
    /\ ~ports[find_port_by_nr(ports, lastOp.nr)].host_connected
    /\ ctrlRxUsed = <<>>
    /\ ~device_broken

\* The eight bytes of struct VirtioConsoleControl: id, event and value in
\* little-endian order.
HeaderBytes(h) ==
    << h.id % 256, (h.id \div 256) % 256, (h.id \div 65536) % 256,
       (h.id \div 16777216) % 256,
       h.event % 256, (h.event \div 256) % 256,
       h.value % 256, (h.value \div 256) % 256 >>

\* The messages that the operation recorded in lastOp has sent, in order,
\* for the operations whose messages the state still tells.
SentMsgs ==
    CASE lastOp.op = "chardev_notify" /\ lastOp.req.value = 0
            /\ ports[find_port_by_nr(ports, lastOp.nr)].ctrl_handler # "none" ->
            <<CtrlMsg(lastOp.nr, VIRTIO_CONSOLE_PORT_OPEN, 0, <<>>)>>
      [] DeviceReadyHandled /\ lastOp.req.value # 0 -> PortAddMsgs
      [] PortReadyHandled /\ lastOp.req.value # 0 -> PortReadyMsgs(ReadyPort)
      [] OTHER -> <<>>

\* The k-th message sent found a chain, and the chain holds it.
Popped(k) == k <= Len(SentMsgs) /\ k <= Len(lastOp.q2_avail)

Fits(k) ==
    /\ Popped(k)
    /\ SumLens(lastOp.q2_avail[k]) >= 8 + Len(SentMsgs[k].extra)

\* C34: a control message with payload extra that is sent into a popped
\* chain of queue 2 fails, and the device is marked broken, if the chain
\* holds fewer than 8 + |extra| bytes: then the chain gets no used entry and
\* no bytes; else the chain gets a used entry of length 8 + |extra| and
\* exactly the bytes id, event, value (little-endian) and extra.
C34_MessageFitsOrFails ==
    LET n == Min(Len(SentMsgs), Len(lastOp.q2_avail))
    IN  SentMsgs # <<>> =>
            /\ Len(NewCtrlUsed) = Cardinality({ k \in 1..n : Fits(k) })
            /\ \A k \in 1..n :
                  IF Fits(k)
                  THEN NewCtrlUsed[Cardinality({ j \in 1..k : Fits(j) })] =
                          [len |-> 8 + Len(SentMsgs[k].extra),
                           data |-> HeaderBytes(SentMsgs[k].hdr) \o SentMsgs[k].extra]
                  ELSE device_broken
            /\ ctrlRxAvail = Drop(lastOp.q2_avail, n)

\* PORT_READY for a port with a name has just been answered: the first
\* chain, of 4 bytes, was too small for the message sent into it and the
\* device is broken; PORT_NAME with the name "h" and the NUL byte went into
\* the next chain, of two descriptors.
C34_Witness ==
    /\ PortReadyHandled
    /\ lastOp.req.value # 0
    /\ device_broken
    /\ Len(lastOp.q2_avail) >= 2
    /\ lastOp.q2_avail[1] = <<4>>
    /\ lastOp.q2_avail[2] = <<4, 8>>
    /\ NewCtrlUsed # <<>>
    /\ NewCtrlUsed[1].len = 10
    /\ NewCtrlUsed[1].data = <<0, 0, 0, 0, 7, 0, 1, 0, 104, 0>>

\* ========================================================================
\* Further properties of the locking (checked under SpecSerialLocks)
\* ========================================================================

\* Thread t is inside write_all / flush on the output of a chardev.
Writing(t) == NextLockStep(t)[1] = "io"

\* C35: no thread that is writing to or flushing the output of the chardev
\* of a port holds the mutex of that port.
C35_PortReleasedBeforeIo ==
    \A t \in Threads :
        Writing(t) => lockOwner[<<"port", NextLockStep(t)[2][2]>>] # t

\* The output handler of port 0 is inside the write to the chardev and holds
\* the port, while the control handler, run for PORT_OPEN of that port, is
\* at the lock() of the port.
C35_Witness ==
    \E t, u \in Threads :
        /\ t # u
        /\ thr[t].op = "output_handle"
        /\ Writing(t)
        /\ NextLockStep(t)[2] = <<"output", 0>>
        /\ lockOwner[<<"port", 0>>] = t
        /\ thr[u].op = "output_control"
        /\ WaitsFor(u, t)
        /\ NextLockStep(u)[2] = <<"port", 0>>

\* ========================================================================
\* Properties of the ownership of requests (checked under SpecAio)
\* ========================================================================

\* The callback of request id has been invoked.
Finished(id) == results[id] # <<>>

\* C36: between engine operations every request that rw_aio queued is in
\* exactly one of pending, in-flight and finished; pending and in-flight
\* are disjoint; in-flight holds only requests that the backend has
\* accepted and not yet reported; a finished request is in neither list.
C36_RequestInOnePlace ==
    pc = "idle" =>
        /\ \A id \in Issued :
              reqRoute[id] = "aligned" =>
                  /\ InList(aio_in_queue, id) \/ InList(aio_in_flight, id) \/ Finished(id)
                  /\ ~(InList(aio_in_queue, id) /\ InList(aio_in_flight, id))
                  /\ Finished(id) =>
                        ~InList(aio_in_queue, id) /\ ~InList(aio_in_flight, id)
        /\ \A i \in 1..Len(aio_in_flight) :
              /\ aio_in_flight[i] \in kernel
              /\ InList(accepted, aio_in_flight[i])

\* handle has returned the error of the callback of a request whose event
\* the backend had reported: the request is finished and still in in-flight,
\* with one node in each list around it.
C36_Witness ==
    /\ pc = "idle"
    /\ lastCall.op = "handle" /\ lastCall.ret = "Err"
    /\ lastCall.dropped = 1
    /\ \E a \in Issued :
          /\ reqRoute[a] = "aligned"
          /\ Finished(a)
          /\ InList(aio_in_flight, a)
          /\ a \notin kernel
          /\ Len(results[a]) = 1
    /\ aio_in_queue # <<>>

\* ========================================================================
\* Properties of the chardev notifications over the life of the device
\* (checked under SpecSerialCtrl)
\* ========================================================================

\* The port that the last chardev notification went to.
NotifiedPort == ports[find_port_by_nr(ports, lastOp.nr)]

\* C37: a chardev Open or Close notification completes without failing
\* before activation, on the active device and after deactivate: it leaves
\* host_connected as the notification says and sends PORT_OPEN through a
\* control handler that is alive, or nothing; it never unwraps a reference
\* to a control handler that is gone.
C37_NotifyCompletesAtAnyTime ==
    lastOp.op \in {"chardev_notify", "chardev_notify_panic"} =>
        /\ ~panicked
        /\ lastOp.op = "chardev_notify"
        /\ NotifiedPort.host_connected = (lastOp.req.value = 1)
        /\ NewCtrlUsed # <<>> =>
              /\ NotifiedPort.ctrl_handler # "none"
              /\ CarryAll(NewCtrlUsed,
                          <<CtrlMsg(lastOp.nr, VIRTIO_CONSOLE_PORT_OPEN,
                                    lastOp.req.value, <<>>)>>)

\* The chardev of a port has opened after deactivate had unregistered the
\* control handler and the event loop had released it: the port's reference
\* is dead and the notification has panicked.
C37_Witness ==
    /\ lastOp.op = "chardev_notify_panic"
    /\ lastOp.req.value = 1
    /\ ~active
    /\ handlers = {}
    /\ NotifiedPort.ctrl_handler = "stale"
    /\ NotifiedPort.deactivated
    /\ NotifiedPort.host_connected
    /\ panicked

====
